---- MODULE Spec2Model ----
(***************************************************************************)
(* grblHAL reporting layer (report.c): the real-time status report         *)
(* generator report_realtime_status and the settings catalog enumerator    *)
(* report_settings_details / report_grbl_settings.                         *)
(*                                                                         *)
(* The byte stream written by hal.stream.write / write_all is modelled as  *)
(* a sequence of string pieces: every write appends the pieces of its      *)
(* argument, appendbuf(n, a, b, ..) is the concatenation of its arguments. *)
(* A literal is cut into pieces where the status line grammar cuts it      *)
(* ("Hold:" is "Hold" ":"), so the bytes on the stream are the pieces in   *)
(* order.                                                                  *)
(* COMPATIBILITY_LEVEL is 0 (the default build).                           *)
(***************************************************************************)
EXTENDS Integers, Sequences, FiniteSets, TLC

\* ------------------------------------------------------------------------
\* Bounds of the model
\* ------------------------------------------------------------------------
N_AXIS == 3
MaxCalls == 2
HistCap == 64

\* ------------------------------------------------------------------------
\* Program constants
\* ------------------------------------------------------------------------
REPORT_OVERRIDE_REFRESH_BUSY_COUNT == 20
REPORT_OVERRIDE_REFRESH_IDLE_COUNT == 10
REPORT_WCO_REFRESH_BUSY_COUNT == 30
REPORT_WCO_REFRESH_IDLE_COUNT == 10
N_DECIMAL_COORDVALUE_MM == 3
N_DECIMAL_COORDVALUE_INCH == 4

ASCII_EOL == "\r\n"

\* sys_state_t values handled by the switch of report_realtime_status
STATE_IDLE == "STATE_IDLE"
STATE_ALARM == "STATE_ALARM"
STATE_CHECK_MODE == "STATE_CHECK_MODE"
STATE_HOMING == "STATE_HOMING"
STATE_CYCLE == "STATE_CYCLE"
STATE_HOLD == "STATE_HOLD"
STATE_JOG == "STATE_JOG"
STATE_SAFETY_DOOR == "STATE_SAFETY_DOOR"
STATE_SLEEP == "STATE_SLEEP"
STATE_ESTOP == "STATE_ESTOP"
STATE_TOOL_CHANGE == "STATE_TOOL_CHANGE"

States ==
  {STATE_IDLE, STATE_ALARM, STATE_CHECK_MODE, STATE_HOMING, STATE_CYCLE,
   STATE_HOLD, STATE_JOG, STATE_SAFETY_DOOR, STATE_SLEEP, STATE_ESTOP,
   STATE_TOOL_CHANGE}

\* state_get() & (STATE_HOMING|STATE_CYCLE|STATE_HOLD|STATE_JOG|STATE_SAFETY_DOOR)
ActiveStates ==
  {STATE_HOMING, STATE_CYCLE, STATE_HOLD, STATE_JOG, STATE_SAFETY_DOOR}

\* the bits of sys.report (sys.report.value is zero iff none is set)
ReportFlags ==
  {"mpg_mode", "scaling", "homed", "xmode", "spindle", "coolant", "overrides",
   "tool", "wco", "gwco", "tool_offset", "tlo_reference", "all"}

EXEC_GCODE_REPORT == "EXEC_GCODE_REPORT"
EXEC_TLO_REPORT == "EXEC_TLO_REPORT"

Axes == 1..N_AXIS
AxisLetters == <<"X", "Y", "Z", "A", "B", "C">>

\* ------------------------------------------------------------------------
\* Value Formatter
\* ------------------------------------------------------------------------
Digits == <<"0", "1", "2", "3", "4", "5", "6", "7", "8", "9">>

RECURSIVE uitoa(_)
uitoa(n) ==
  IF n < 10 THEN Digits[n + 1] ELSE uitoa(n \div 10) \o Digits[(n % 10) + 1]

\* a uint32_t as two 16 bit halves <<high, low>>
U32(n) == <<n \div 65536, n % 65536>>

\* v - 1 in uint32_t arithmetic
U32Dec(v) ==
  IF v[2] > 0 THEN <<v[1], v[2] - 1>>
  ELSE IF v[1] > 0 THEN <<v[1] - 1, 65535>>
  ELSE <<65535, 65535>>

\* uitoa of a uint32_t given as halves, by long division
RECURSIVE uitoa32(_)
uitoa32(v) ==
  LET t == ((v[1] % 10) * 65536) + v[2]
      q == <<v[1] \div 10, t \div 10>>
  IN IF q = <<0, 0>> THEN Digits[(t % 10) + 1]
     ELSE uitoa32(q) \o Digits[(t % 10) + 1]

RECURSIVE Pow10(_)
Pow10(d) == IF d = 0 THEN 1 ELSE 10 * Pow10(d - 1)

RECURSIVE FracDigits(_, _)
FracDigits(n, d) ==
  IF d = 0 THEN "" ELSE FracDigits(n \div 10, d - 1) \o Digits[(n % 10) + 1]

\* ftoa(v, decimals); scaled is the value in units of 10^-decimals
ftoa(scaled, decimals) ==
  LET a == IF scaled < 0 THEN 0 - scaled ELSE scaled
  IN (IF scaled < 0 THEN "-" ELSE "") \o uitoa(a \div Pow10(decimals))
       \o "." \o FracDigits(a % Pow10(decimals), decimals)

\* value * INCH_PER_MM, from 1/1000 mm to 1/10000 inch (rounded to nearest)
MmToInch(v) ==
  LET a == IF v < 0 THEN 0 - v ELSE v
      r == ((a * 1000) + 1270) \div 2540
  IN IF v < 0 THEN 0 - r ELSE r

RECURSIVE JoinAxisValues(_, _, _, _)
JoinAxisValues(axis_values, idx, inches, diameter_mode) ==
  IF idx > N_AXIS THEN ""
  ELSE LET v0 == IF idx = 1 /\ diameter_mode
                 THEN axis_values[idx] * 2 ELSE axis_values[idx]
           txt == IF inches THEN ftoa(MmToInch(v0), N_DECIMAL_COORDVALUE_INCH)
                  ELSE ftoa(v0, N_DECIMAL_COORDVALUE_MM)
       IN txt \o (IF idx < N_AXIS THEN "," ELSE "")
              \o JoinAxisValues(axis_values, idx + 1, inches, diameter_mode)

\* get_axis_values_mm / get_axis_values_inches, selected by report_init
get_axis_values(axis_values, inches, diameter_mode) ==
  JoinAxisValues(axis_values, 1, inches, diameter_mode)

\* get_rate_value_mm / get_rate_value_inch; value in 1/1000 units
get_rate_value(value, inches) ==
  IF inches THEN uitoa(MmToInch(value) \div 10000) ELSE uitoa(value \div 1000)

\* axis_signals_tostring: one letter per set axis bit, X first
RECURSIVE AxisLettersFrom(_, _)
AxisLettersFrom(signals, idx) ==
  IF idx > N_AXIS THEN <<>>
  ELSE (IF idx \in signals THEN <<AxisLetters[idx]>> ELSE <<>>)
         \o AxisLettersFrom(signals, idx + 1)

axis_signals_tostring(signals) == AxisLettersFrom(signals, 1)

\* map_coord_system: G54..G59, G59.1..G59.3
map_coord_system(id) ==
  LET g5x == id + 54
  IN <<uitoa(IF g5x > 59 THEN 59 ELSE g5x)>>
       \o (IF g5x > 59 THEN <<".", uitoa(g5x - 59)>> ELSE <<>>)

\* ------------------------------------------------------------------------
\* State
\* ------------------------------------------------------------------------
VARIABLES
  settings,          \* settings.status_report.*, report_inches, mode, homing flags
  hal,               \* hal.driver_cap.*, hal.signals_cap.*, optional entry points
  grbl,              \* grbl.on_realtime_report registered
  sys_report,        \* sys.report as left by the previous call
  wco_counter,       \* static uint8_t wco_counter
  override_counter,  \* static uint8_t override_counter
  probing,           \* static bool probing of report_realtime_status
  parser,            \* static tool, feed_rate, spindle_rpm, last_state, g92_active
  snap,              \* the machine snapshot read by the most recent call
  report_in,         \* sys.report as found on entry to the most recent call
  line,              \* the pieces written by the most recent call
  exec_set,          \* flags passed to system_set_exec_state_flag by that call
  cb,                \* invocations of grbl.on_realtime_report during that call
  calls,             \* status reports since report_init_message (capped)
  since_wco,         \* trailing status reports without a WCO field (capped)
  since_ov,          \* trailing status reports without an Ov field (capped)
  gap_wco,           \* calls between the last two WCO fields, 0 if fewer than two
  gap_ov,            \* calls between the last two Ov fields, 0 if fewer than two
  registry,          \* the chain of setting_details_t: core first, then plugins
  req,               \* the most recent catalog request and its calloc outcome
  rows,              \* the rows written by that request
  status,            \* the status_code_t it returned
  groups,            \* the chain of group arrays and the build's struct layout
  prior,             \* the request before the most recent one, with its outcome
  hooks,             \* the handler in each intercepted hal / grbl entry point
  saved,             \* the odometer's saved handlers (stepper_pulse_start, ...)
  plugin,            \* the handlers another plugin saved when it hooked in
  steps,             \* static uint32_t steps[N_AXIS]
  odometer_changed,  \* static bool odometer_changed
  odometers,         \* static odometer_data_t odometers, and what was written
  ms,                \* static uint32_t ms of onStateChanged, onSpindleSetState
  ticks,             \* hal.get_elapsed_ticks()
  trace,             \* the handlers run by the most recent call through a slot
  pc,                \* where the foreground handler in flight stands
  frame              \* the locals of that handler, and the tally kept of it

catalogVars == <<registry, req, rows, status>>

groupVars == <<groups, prior>>

stepVars == <<pc, frame>>

odometerVars ==
  <<hooks, saved, plugin, steps, odometer_changed, odometers, ms, ticks, trace>>

statusVars ==
  <<settings, hal, grbl, sys_report, wco_counter, override_counter, probing,
    parser, snap, report_in, line, exec_set, cb, calls, since_wco, since_ov,
    gap_wco, gap_ov>>

Cap(n) == IF n > HistCap THEN HistCap ELSE n

\* ------------------------------------------------------------------------
\* report_realtime_status, in source order
\* ------------------------------------------------------------------------

\* probe_state: hal.probe.get_state() if present, else {connected, !triggered}
ProbeState(s) ==
  IF hal.probe_get_state THEN s.probe
  ELSE [connected |-> TRUE, triggered |-> FALSE]

\* the value the switch is taken on
DisplayState(s) ==
  IF s.tool_change /\ s.state = STATE_CYCLE THEN STATE_TOOL_CHANGE ELSE s.state

\* static bool probing, updated in case STATE_CYCLE only
ProbingNext(s) ==
  IF DisplayState(s) = STATE_CYCLE
  THEN IF s.probing_active /\ settings.status_report.run_substate THEN TRUE
       ELSE IF probing THEN ProbeState(s).triggered
       ELSE probing
  ELSE probing

\* the holding-stage value less one, stopping at zero
HoldSubstate_Saturating(s) ==
  IF s.holding_state = 0 THEN U32(0) ELSE U32(s.holding_state - 1)

\* (uint32_t)(sys.holding_state - 1)
HoldSubstate(s) == U32Dec(U32(s.holding_state))

\* StateSegment with the STATE_ESTOP label left out of the switch
StateSegment_NoEstop(s, r) ==
  LET d == DisplayState(s) IN
  CASE d = STATE_IDLE -> <<"Idle">>
    [] d = STATE_CYCLE ->
         <<"Run">> \o (IF s.feed_hold_pending THEN <<":", "1">>
                       ELSE IF ProbingNext(s) THEN <<":", "2">> ELSE <<>>)
    [] d = STATE_HOLD -> <<"Hold", ":", uitoa32(HoldSubstate(s))>>
    [] d = STATE_JOG -> <<"Jog">>
    [] d = STATE_HOMING -> <<"Home">>
    [] d = STATE_ALARM ->
         IF ("all" \in r \/ settings.status_report.alarm_substate) /\ s.alarm # 0
         THEN <<"Alarm", ":", uitoa(s.alarm)>>
         ELSE <<"Alarm">>
    [] d = STATE_CHECK_MODE -> <<"Check">>
    [] d = STATE_SAFETY_DOOR -> <<"Door", ":", uitoa(s.parking_state)>>
    [] d = STATE_SLEEP -> <<"Sleep">>
    [] d = STATE_TOOL_CHANGE -> <<"Tool">>
    [] OTHER -> <<>>

\* the switch on the display state: token and sub-state
StateSegment(s, r) ==
  LET d == DisplayState(s) IN
  CASE d = STATE_IDLE -> <<"Idle">>
    [] d = STATE_CYCLE ->
         <<"Run">> \o (IF s.feed_hold_pending THEN <<":", "1">>
                       ELSE IF ProbingNext(s) THEN <<":", "2">> ELSE <<>>)
    [] d = STATE_HOLD -> <<"Hold", ":", uitoa32(HoldSubstate(s))>>
    [] d = STATE_JOG -> <<"Jog">>
    [] d = STATE_HOMING -> <<"Home">>
    [] d \in {STATE_ESTOP, STATE_ALARM} ->
         IF ("all" \in r \/ settings.status_report.alarm_substate) /\ s.alarm # 0
         THEN <<"Alarm", ":", uitoa(s.alarm)>>
         ELSE <<"Alarm">>
    [] d = STATE_CHECK_MODE -> <<"Check">>
    [] d = STATE_SAFETY_DOOR -> <<"Door", ":", uitoa(s.parking_state)>>
    [] d = STATE_SLEEP -> <<"Sleep">>
    [] d = STATE_TOOL_CHANGE -> <<"Tool">>
    [] OTHER -> <<>>

\* wco[] is filled by the loop over the axes
WcoComputed(r) == ~settings.status_report.machine_position \/ "wco" \in r

\* wco[] as read later: the offsets if computed, else whatever the stack holds
WcoArray(s, r) == IF WcoComputed(r) THEN s.gc_offset ELSE s.garbage

PrintPosition(s) ==
  IF settings.status_report.machine_position THEN s.position
  ELSE [idx \in Axes |-> s.position[idx] - s.gc_offset[idx]]

PositionSegment(s) ==
  <<IF settings.status_report.machine_position THEN "|MPos:" ELSE "|WPos:",
    get_axis_values(PrintPosition(s), settings.report_inches, s.diameter_mode)>>

BufferSegment(s) ==
  IF settings.status_report.buffer_state
  THEN <<"|Bf:", uitoa(s.block_buffer_available), ",",
         uitoa(s.rx_buffer_available)>>
  ELSE <<>>

\* LineNumberSegment without the test of settings.status_report.line_numbers
LineNumberSegment_Ungated(s) ==
  IF s.cur_block_line > 0 THEN <<"|Ln:", uitoa(s.cur_block_line)>> ELSE <<>>

\* cur_block_line = -1 stands for plan_get_current_block() == NULL
LineNumberSegment(s) ==
  IF settings.status_report.line_numbers /\ s.cur_block_line > 0
  THEN <<"|Ln:", uitoa(s.cur_block_line)>>
  ELSE <<>>

FeedSpeedSegment(s) ==
  IF settings.status_report.feed_speed
  THEN IF hal.variable_spindle
       THEN <<"|FS:", get_rate_value(s.realtime_rate, settings.report_inches),
              ",", uitoa(IF "on" \in s.sp_state THEN s.spindle_rpm ELSE 0)>>
            \o (IF hal.spindle_get_data THEN <<",", uitoa(s.sensor_rpm)>>
                ELSE <<>>)
       ELSE <<"|F:", get_rate_value(s.realtime_rate, settings.report_inches)>>
  ELSE <<>>

\* the letters of the control signals, in source order
ControlLetters(s) ==
  LET c == s.ctrl_pins IN
  IF c = {} THEN <<>>
  ELSE (IF "safety_door_ajar" \in c /\ hal.safety_door_ajar THEN <<"D">> ELSE <<>>)
    \o (IF "reset" \in c THEN <<"R">> ELSE <<>>)
    \o (IF "feed_hold" \in c THEN <<"H">> ELSE <<>>)
    \o (IF "cycle_start" \in c THEN <<"S">> ELSE <<>>)
    \o (IF "e_stop" \in c THEN <<"E">> ELSE <<>>)
    \o (IF "block_delete" \in c /\ s.block_delete_enabled THEN <<"L">> ELSE <<>>)
    \o (IF (IF hal.stop_disable THEN "stop_disable" \in c
            ELSE s.optional_stop_disable) THEN <<"T">> ELSE <<>>)
    \o (IF "motor_warning" \in c THEN <<"W">> ELSE <<>>)
    \o (IF "motor_fault" \in c THEN <<"M">> ELSE <<>>)

PinSegment(s) ==
  LET p == ProbeState(s) IN
  IF settings.status_report.pin_state
     /\ (s.lim_pins # {} \/ s.ctrl_pins # {} \/ p.triggered \/ ~p.connected
         \/ s.block_delete_enabled)
  THEN <<"|Pn:">>
       \o (IF p.triggered THEN <<"P">> ELSE <<>>)
       \o (IF ~p.connected THEN <<"O">> ELSE <<>>)
       \o (IF s.lim_pins # {} /\ "limits_override" \notin s.ctrl_pins
           THEN axis_signals_tostring(s.lim_pins) ELSE <<>>)
       \o ControlLetters(s)
  ELSE <<>>

RefreshCount(s, busy, idle) ==
  IF s.state \in ActiveStates THEN busy - 1 ELSE idle - 1

\* the WCO counter block
WcoCounterNext(s, r) ==
  IF settings.status_report.work_coord_offset
  THEN IF wco_counter > 0 /\ "wco" \notin r THEN wco_counter - 1
       ELSE RefreshCount(s, REPORT_WCO_REFRESH_BUSY_COUNT,
                         REPORT_WCO_REFRESH_IDLE_COUNT)
  ELSE wco_counter

FlagsAfterWco(r) ==
  IF settings.status_report.work_coord_offset THEN r ELSE r \ {"wco"}

\* the override counter block
OverrideForced(r) == ~(override_counter > 0 /\ "overrides" \notin r)

OverrideCounterNext(s, r) ==
  IF settings.status_report.overrides
  THEN IF ~OverrideForced(r) THEN override_counter - 1
       ELSE RefreshCount(s, REPORT_OVERRIDE_REFRESH_BUSY_COUNT,
                         REPORT_OVERRIDE_REFRESH_IDLE_COUNT)
  ELSE override_counter

FlagsAfterOverrides(s, r) ==
  IF settings.status_report.overrides
  THEN IF ~OverrideForced(r) THEN r
       ELSE r \cup {"overrides"}
              \cup (IF "on" \in s.sp_state THEN {"spindle"} ELSE {})
              \cup (IF s.coolant # {} THEN {"coolant"} ELSE {})
  ELSE r \ {"overrides"}

\* sys.report as the field block and the callback see it
FlagsAtFields(s, r) == FlagsAfterOverrides(s, FlagsAfterWco(r))

RECURSIVE MaskOf(_, _)
MaskOf(axes, idx) ==
  IF idx > N_AXIS THEN 0
  ELSE (IF idx \in axes THEN 2 ^ (idx - 1) ELSE 0) + MaskOf(axes, idx + 1)

WcoField(s, r, f) ==
  IF "wco" \in f
  THEN <<"|WCO:", get_axis_values(WcoArray(s, r), settings.report_inches,
                                  s.diameter_mode)>>
  ELSE <<>>

WcsField(s, f) ==
  IF "gwco" \in f THEN <<"|WCS:G">> \o map_coord_system(s.coord_system)
  ELSE <<>>

OvField(s, f) ==
  IF "overrides" \in f
  THEN <<"|Ov:", uitoa(s.override.feed_rate), ",", uitoa(s.override.rapid_rate),
         ",", uitoa(s.override.spindle_rpm)>>
  ELSE <<>>

AccessoryField(s, f) ==
  IF "spindle" \in f \/ "coolant" \in f \/ "tool" \in f \/ s.tool_change
  THEN <<"|A:">>
       \o (IF "on" \in s.sp_state
           THEN <<IF "ccw" \in s.sp_state THEN "C" ELSE "S">> ELSE <<>>)
       \o (IF "encoder_error" \in s.sp_state /\ hal.spindle_sync
           THEN <<"E">> ELSE <<>>)
       \o (IF "flood" \in s.coolant THEN <<"F">> ELSE <<>>)
       \o (IF "mist" \in s.coolant THEN <<"M">> ELSE <<>>)
       \o (IF s.tool_change /\ "tool" \notin f THEN <<"T">> ELSE <<>>)
  ELSE <<>>

ScalingField(s, f) ==
  IF "scaling" \in f THEN <<"|Sc:">> \o axis_signals_tostring(s.g51) ELSE <<>>

MpgField(s, f) ==
  IF "mpg_mode" \in f /\ hal.mpg_mode
  THEN <<IF s.mpg_mode THEN "|MPG:1" ELSE "|MPG:0">>
  ELSE <<>>

HomedField(s, f) ==
  IF "homed" \in f
     /\ (s.homing_mask # {} \/ settings.homing_single_axis_commands
         \/ settings.homing_manual)
  THEN LET homing == IF s.homing_mask # {} THEN s.homing_mask ELSE Axes
       IN <<"|H:", IF homing \subseteq s.homed_mask THEN "1" ELSE "0">>
          \o (IF settings.homing_single_axis_commands
              THEN <<",", uitoa(MaskOf(s.homed_mask, 1))>> ELSE <<>>)
  ELSE <<>>

DiameterField(s, f) ==
  IF "xmode" \in f /\ settings.lathe
  THEN <<IF s.diameter_mode THEN "|D:1" ELSE "|D:0">>
  ELSE <<>>

ToolField(s, f) ==
  IF "tool" \in f THEN <<"|T:", uitoa(s.tool)>> ELSE <<>>

\* TlrField testing sys.report.tool_offset instead of tlo_reference
TlrField_WrongFlag(s, f) ==
  IF "tool_offset" \in f
  THEN <<"|TLR:", uitoa(IF s.tlo_reference_set THEN 1 ELSE 0)>>
  ELSE <<>>

TlrField(s, f) ==
  IF "tlo_reference" \in f
  THEN <<"|TLR:", uitoa(IF s.tlo_reference_set THEN 1 ELSE 0)>>
  ELSE <<>>

\* DirtySegment with the overrides written before the WCO
DirtySegment_OvFirst(s, r) ==
  LET f == FlagsAtFields(s, r) IN
  IF f # {} \/ s.tool_change
  THEN OvField(s, f) \o WcoField(s, r, f) \o WcsField(s, f)
       \o AccessoryField(s, f) \o ScalingField(s, f) \o MpgField(s, f)
       \o HomedField(s, f) \o DiameterField(s, f) \o ToolField(s, f)
       \o TlrField(s, f)
  ELSE <<>>

\* if(sys.report.value || gc_state.tool_change) { ... } with sys.report = f
\* at that point and r on entry to the call
DirtyFields(s, r, f) ==
  IF f # {} \/ s.tool_change
  THEN WcoField(s, r, f) \o WcsField(s, f) \o OvField(s, f)
       \o AccessoryField(s, f) \o ScalingField(s, f) \o MpgField(s, f)
       \o HomedField(s, f) \o DiameterField(s, f) \o ToolField(s, f)
       \o TlrField(s, f)
  ELSE <<>>

DirtySegment(s, r) == DirtyFields(s, r, FlagsAtFields(s, r))

\* grbl.on_realtime_report(hal.stream.write_all, sys.report)
PluginSegment(s) == IF grbl.on_realtime_report THEN s.plugin_out ELSE <<>>

FirmwareSegment(s, r) ==
  IF "all" \in FlagsAtFields(s, r) THEN <<"|FW:grblHAL">> ELSE <<>>

\* the fields written before the counters are advanced
HeadFields(s, r) ==
  <<"<">> \o StateSegment(s, r) \o PositionSegment(s) \o BufferSegment(s)
    \o LineNumberSegment(s) \o FeedSpeedSegment(s) \o PinSegment(s)

CoreFields(s, r) == HeadFields(s, r) \o DirtySegment(s, r)

\* StatusLine with the callback's fields written after the firmware field
StatusLine_PluginLast(s, r) ==
  CoreFields(s, r) \o FirmwareSegment(s, r) \o PluginSegment(s)
    \o <<">" \o ASCII_EOL>>

StatusLine(s, r) ==
  CoreFields(s, r) \o PluginSegment(s) \o FirmwareSegment(s, r)
    \o <<">" \o ASCII_EOL>>

\* gc_state.modal as memcmp sees it
GcModal(s) ==
  [other |-> s.modal_other, diameter_mode |-> s.diameter_mode,
   coord_system |-> s.coord_system]

\* the parser-state change detection

ParserFastChanged(s) ==
  parser.feed_rate # s.gc_feed_rate \/ parser.spindle_rpm # s.gc_spindle_rpm
    \/ parser.tool # s.tool

ParserChanged(s) ==
  \/ ParserFastChanged(s)
  \/ parser.g92_active # s.g92_active
  \/ parser.last_state # GcModal(s)

ParserNext(s) ==
  IF ParserFastChanged(s)
  THEN [parser EXCEPT !.feed_rate = s.gc_feed_rate, !.tool = s.tool,
                      !.spindle_rpm = s.gc_spindle_rpm]
  ELSE IF parser.g92_active # s.g92_active
  THEN [parser EXCEPT !.g92_active = ~parser.g92_active]
  ELSE IF parser.last_state # GcModal(s)
  THEN [parser EXCEPT !.last_state = GcModal(s)]
  ELSE parser

ParserChecked(s, r) ==
  "all" \notin FlagsAtFields(s, r) /\ settings.status_report.parser_state

ExecFlags(s, r) ==
  IF ParserChecked(s, r)
  THEN (IF ParserChanged(s) THEN {EXEC_GCODE_REPORT} ELSE {})
       \cup (IF "tool_offset" \in FlagsAtFields(s, r) THEN {EXEC_TLO_REPORT}
             ELSE {})
  ELSE {}

\* sys.report.value = 0; sys.report.wco = work_coord_offset && wco_counter == 0
ReportAtExit(next_wco_counter) ==
  IF settings.status_report.work_coord_offset /\ next_wco_counter = 0
  THEN {"wco"} ELSE {}

HasPiece(l, p) == \E i \in 1..Len(l) : l[i] = p

\* one call; dirty are the flags producers have set since the previous call
report_realtime_status(s, dirty) ==
  /\ report_in' = sys_report \cup dirty
  /\ snap' = s
  /\ line' = StatusLine(s, report_in')
  /\ probing' = ProbingNext(s)
  /\ wco_counter' = WcoCounterNext(s, report_in')
  /\ override_counter' = OverrideCounterNext(s, report_in')
  /\ parser' = IF ParserChecked(s, report_in') THEN ParserNext(s) ELSE parser
  /\ exec_set' = ExecFlags(s, report_in')
  /\ cb' = IF grbl.on_realtime_report
           THEN <<[flags |-> FlagsAtFields(s, report_in'),
                   at |-> Len(CoreFields(s, report_in'))]>>
           ELSE <<>>
  /\ sys_report' = ReportAtExit(wco_counter')
  /\ calls' = Cap(calls + 1)
  /\ since_wco' = IF HasPiece(line', "|WCO:") THEN 0 ELSE Cap(since_wco + 1)
  /\ since_ov' = IF HasPiece(line', "|Ov:") THEN 0 ELSE Cap(since_ov + 1)
  /\ gap_wco' = IF since_wco' = 0 /\ calls > since_wco
                THEN Cap(since_wco + 1) ELSE gap_wco
  /\ gap_ov' = IF since_ov' = 0 /\ calls > since_ov
               THEN Cap(since_ov + 1) ELSE gap_ov
  /\ UNCHANGED <<settings, hal, grbl>>

\* report_init_message: override_counter = wco_counter = 0, welcome line
report_init_message ==
  /\ wco_counter' = 0
  /\ override_counter' = 0
  /\ line' = <<ASCII_EOL \o "GrblHAL " \o "['$' or '$HELP' for help]" \o ASCII_EOL>>
  /\ calls' = 0
  /\ since_wco' = 0
  /\ since_ov' = 0
  /\ gap_wco' = 0
  /\ gap_ov' = 0
  /\ cb' = <<>>
  /\ exec_set' = {}
  /\ UNCHANGED <<settings, hal, grbl, sys_report, probing, parser, snap,
                 report_in>>

\* ------------------------------------------------------------------------
\* Catalog enumerator: settings details and settings values
\* ------------------------------------------------------------------------
MaxSettings == 2
MaxPlugins == 1

Group_All == 0
Group_General == 1
Group_Plugin == 2
Group_Axis0 == 40
Setting_SettingsAll == 9999

Status_OK == "Status_OK"
Status_SettingDisabled == "Status_SettingDisabled"
Status_Unhandled == "Status_Unhandled"

Setting_IsLegacy == "Setting_IsLegacy"
Setting_IsLegacyFn == "Setting_IsLegacyFn"
Setting_IsExtended == "Setting_IsExtended"
Setting_NonCore == "Setting_NonCore"

\* setting_detail_t: is_available is "NULL" (no predicate) or the answer of
\* the predicate; value tells whether setting->value is non-NULL
Descriptor(id, group, type, is_available, value) ==
  [id |-> id, group |-> group, type |-> type, is_available |-> is_available,
   value |-> value]

\* setting->is_available == NULL || setting->is_available(setting)
IsAvailable(setting) == setting.is_available \in {"NULL", "yes"}

\* settings_normalize_group: the group of one axis is the axis group
settings_normalize_group(group) ==
  IF group >= Group_Axis0 /\ group < Group_Axis0 + N_AXIS THEN Group_Axis0
  ELSE group

\* report_args_t filled from the requested group
ReportArgs(human_readable, group) ==
  [human_readable |-> human_readable,
   group |-> settings_normalize_group(group),
   offset |-> group - settings_normalize_group(group)]

\* the offsets settings_iterator calls back with
IteratorOffsets(setting) ==
  IF setting.group = Group_Axis0 THEN [i \in 1..N_AXIS |-> i - 1] ELSE <<0>>

RECURSIVE Flatten(_)
Flatten(ss) == IF ss = <<>> THEN <<>> ELSE Head(ss) \o Flatten(Tail(ss))

\* settings_iterator: calls back once per offset and stops at the first
\* callback that returns false; res[i] is the outcome of the i-th callback
IteratorResult(res) ==
  LET failed == {i \in 1..Len(res) : ~res[i].ret}
      last == IF failed = {} THEN Len(res)
              ELSE CHOOSE i \in failed : \A j \in failed : i <= j
  IN [out |-> Flatten([i \in 1..last |-> res[i].out]), ret |-> res[last].ret]

\* report_settings_detail: one row, $<id> or [SETTING:<id>
report_settings_detail(human_readable, setting, offset) ==
  [kind |-> IF human_readable THEN "$" ELSE "[SETTING:",
   id |-> uitoa(setting.id + offset), setting |-> setting, offset |-> offset]

\* print_sorted without the suppression of the other axes' rows
print_sorted_All(setting, offset, args) ==
  [out |-> <<report_settings_detail(args.human_readable, setting, offset)>>,
   ret |-> TRUE]

print_sorted(setting, offset, args) ==
  [out |-> IF ~(args.group = setting.group /\ args.offset # offset)
           THEN <<report_settings_detail(args.human_readable, setting, offset)>>
           ELSE <<>>,
   ret |-> TRUE]

\* print_unsorted without the availability test
print_unsorted_NoAvail(setting, offset, args) ==
  [out |-> IF ~(args.group = setting.group /\ args.offset # offset)
           THEN <<report_settings_detail(args.human_readable, setting, offset)>>
           ELSE <<>>,
   ret |-> TRUE]

print_unsorted(setting, offset, args) ==
  [out |-> IF ~(args.group = setting.group /\ args.offset # offset)
              /\ IsAvailable(setting)
           THEN <<report_settings_detail(args.human_readable, setting, offset)>>
           ELSE <<>>,
   ret |-> TRUE]

\* print_setting / report_setting: $<id>=<value> or $<id>=N/A
print_setting(setting, offset) ==
  [out |-> IF setting.value
           THEN <<[kind |-> "$=", id |-> uitoa(setting.id + offset),
                   setting |-> setting, offset |-> offset]>>
           ELSE <<[kind |-> "$=N/A", id |-> uitoa(setting.id),
                   setting |-> setting, offset |-> offset]>>,
   ret |-> TRUE]

\* cmp_settings
cmp_settings(a, b) == a.id - b.id

\* qsort with cmp_settings: insertion into an ascending sequence
RECURSIVE InsertSorted(_, _)
InsertSorted(x, sorted) ==
  IF sorted = <<>> THEN <<x>>
  ELSE IF cmp_settings(x, Head(sorted)) < 0 THEN <<x>> \o sorted
  ELSE <<Head(sorted)>> \o InsertSorted(x, Tail(sorted))

\* qsort that leaves the array in collection order
qsort_Unsorted(all_settings) == all_settings

RECURSIVE qsort(_)
qsort(all_settings) ==
  IF all_settings = <<>> THEN <<>>
  ELSE InsertSorted(Head(all_settings), qsort(Tail(all_settings)))

\* all descriptors of the chain, in chain order
ChainSettings(chain) == Flatten([i \in 1..Len(chain) |-> chain[i]])

RECURSIVE SelectSeqBy(_, _, _)
SelectSeqBy(seq, group, args) ==
  IF seq = <<>> THEN <<>>
  ELSE (IF (group = Group_All \/ Head(seq).group = args.group)
           /\ IsAvailable(Head(seq))
        THEN <<Head(seq)>> ELSE <<>>) \o SelectSeqBy(Tail(seq), group, args)

\* sort_settings_details; allocated is the outcome of calloc
sort_settings_details(human_readable, group, allocated) ==
  LET args == ReportArgs(human_readable, group)
      all_settings == qsort(SelectSeqBy(ChainSettings(registry), group, args))
      res == [i \in 1..Len(all_settings) |->
                IteratorResult([k \in 1..Len(IteratorOffsets(all_settings[i])) |->
                  print_sorted(all_settings[i],
                               IteratorOffsets(all_settings[i])[k], args)])]
      reported == group = Group_All \/ \E i \in 1..Len(res) : res[i].ret
  IN IF ~allocated THEN [status |-> Status_Unhandled, out |-> <<>>]
     ELSE [status |-> IF reported THEN Status_OK ELSE Status_SettingDisabled,
           out |-> Flatten([i \in 1..Len(res) |-> res[i].out])]

\* the unsorted walk of print_settings_details
UnsortedWalk(human_readable, group) ==
  LET args == ReportArgs(human_readable, group)
      all == ChainSettings(registry)
      res == [i \in 1..Len(all) |->
                IF group = Group_All \/ all[i].group = args.group
                THEN IteratorResult([k \in 1..Len(IteratorOffsets(all[i])) |->
                       print_unsorted(all[i], IteratorOffsets(all[i])[k], args)])
                ELSE [out |-> <<>>, ret |-> FALSE]]
      reported == group = Group_All \/ \E i \in 1..Len(res) : res[i].ret
  IN [status |-> IF reported THEN Status_OK ELSE Status_SettingDisabled,
      out |-> Flatten([i \in 1..Len(res) |-> res[i].out])]

print_settings_details(human_readable, group, allocated) ==
  LET sorted == sort_settings_details(human_readable, group, allocated)
  IN IF sorted.status # Status_Unhandled THEN sorted
     ELSE UnsortedWalk(human_readable, group)

\* setting_get_details: the available descriptor that covers id
setting_get_details(id) ==
  {d \in {ChainSettings(registry)[i] : i \in 1..Len(ChainSettings(registry))} :
     /\ IsAvailable(d)
     /\ d.id <= id
     /\ id < d.id + Len(IteratorOffsets(d))}

report_settings_details(human_readable, id, group, allocated) ==
  /\ req' = [op |-> "report_settings_details", human_readable |-> human_readable,
             id |-> id, group |-> group, all |-> FALSE, allocated |-> allocated]
  /\ IF id # Setting_SettingsAll
     THEN IF setting_get_details(id) # {}
          THEN LET setting == CHOOSE d \in setting_get_details(id) : TRUE
               IN /\ rows' = <<report_settings_detail(human_readable, setting,
                                                      id - setting.id)>>
                  /\ status' = Status_OK
          ELSE rows' = <<>> /\ status' = Status_SettingDisabled
     ELSE LET r == print_settings_details(human_readable, group, allocated)
          IN rows' = r.out /\ status' = r.status
  /\ UNCHANGED registry

RECURSIVE SelectValues(_, _)
SelectValues(seq, legacy_only) ==
  IF seq = <<>> THEN <<>>
  ELSE (IF (~legacy_only
            \/ Head(seq).type \in {Setting_IsLegacy, Setting_IsLegacyFn})
           /\ IsAvailable(Head(seq))
        THEN <<Head(seq)>> ELSE <<>>) \o SelectValues(Tail(seq), legacy_only)

\* the lines report_grbl_settings writes
GrblSettingsRows(all, allocated) ==
  LET picked == SelectValues(registry[1], ~all)
                  \o (IF all THEN SelectValues(ChainSettings(Tail(registry)), FALSE)
                      ELSE <<>>)
      all_settings == qsort(picked)
      res == [i \in 1..Len(all_settings) |->
                IteratorResult([k \in 1..Len(IteratorOffsets(all_settings[i])) |->
                  print_setting(all_settings[i],
                                IteratorOffsets(all_settings[i])[k])])]
  IN IF allocated THEN Flatten([i \in 1..Len(res) |-> res[i].out]) ELSE <<>>

report_grbl_settings(all, allocated) ==
  /\ req' = [op |-> "report_grbl_settings", human_readable |-> FALSE,
             id |-> Setting_SettingsAll, group |-> Group_All, all |-> all,
             allocated |-> allocated]
  /\ rows' = GrblSettingsRows(all, allocated)
  /\ status' = "void"
  /\ UNCHANGED registry

InitCatalog(chain) ==
  /\ registry = chain
  /\ req = [op |-> "none", human_readable |-> FALSE, id |-> Setting_SettingsAll,
            group |-> Group_All, all |-> FALSE, allocated |-> TRUE]
  /\ rows = <<>>
  /\ status = "none"

\* ------------------------------------------------------------------------
\* Catalog enumerator: setting groups
\* ------------------------------------------------------------------------
Group_Root == 0

\* the group names in strcmp order
GroupNames == <<"Axis", "General", "Plugin", "Root", "X-axis">>

\* setting_group_detail_t; available is the answer of
\* settings_is_group_available(id)
GroupDetail(parent, id, name, available) ==
  [parent |-> parent, id |-> id, name |-> name, available |-> available]

\* print_setting_group: one row per available group, none for the root
\* group when a prefix is given
print_setting_group(group, prefix) ==
  IF ~group.available THEN <<>>
  ELSE IF prefix = "NULL"
  THEN <<[kind |-> "[SETTINGGROUP:", id |-> uitoa(group.id),
          parent |-> uitoa(group.parent), name |-> group.name]>>
  ELSE IF group.id # Group_Root
  THEN <<[kind |-> prefix, name |-> group.name]>>
  ELSE <<>>

\* cmp_setting_group_id reads ->id through a setting_detail_t pointer: the
\* member of the group it lands on is fixed by the struct layout of the build
cmp_setting_group_id(a, b) ==
  IF groups.id_member = "id" THEN a.id - b.id ELSE a.parent - b.parent

\* cmp_setting_group_name: strcmp of the names
cmp_setting_group_name(a, b) ==
  (CHOOSE i \in 1..Len(GroupNames) : GroupNames[i] = a.name)
    - (CHOOSE i \in 1..Len(GroupNames) : GroupNames[i] = b.name)

RECURSIVE InsertGroup(_, _, _)
InsertGroup(x, sorted, by_id) ==
  IF sorted = <<>> THEN <<x>>
  ELSE IF (IF by_id THEN cmp_setting_group_id(x, Head(sorted))
           ELSE cmp_setting_group_name(x, Head(sorted))) < 0
  THEN <<x>> \o sorted
  ELSE <<Head(sorted)>> \o InsertGroup(x, Tail(sorted), by_id)

\* qsort of the group pointers with the comparison selected by by_id
RECURSIVE qsort_groups(_, _)
qsort_groups(all_groups, by_id) ==
  IF all_groups = <<>> THEN <<>>
  ELSE InsertGroup(Head(all_groups), qsort_groups(Tail(all_groups), by_id),
                   by_id)

\* all groups of the chain, in chain order
ChainGroups == Flatten([i \in 1..Len(groups.chain) |-> groups.chain[i]])

\* sort_setting_group_details; allocated is the outcome of calloc
sort_setting_group_details(by_id, prefix, allocated) ==
  LET all_groups == qsort_groups(ChainGroups, by_id)
  IN IF ~allocated THEN [status |-> Status_Unhandled, out |-> <<>>]
     ELSE [status |-> Status_OK,
           out |-> Flatten([i \in 1..Len(all_groups) |->
                              print_setting_group(all_groups[i], prefix)])]

\* a walk that appends to the rows already written
GroupDetails_Appending(by_id, prefix, allocated) ==
  LET sorted == sort_setting_group_details(by_id, prefix, allocated)
      out == IF sorted.status # Status_Unhandled THEN sorted.out
             ELSE Flatten([i \in 1..Len(ChainGroups) |->
                             print_setting_group(ChainGroups[i], prefix)])
  IN [status |-> Status_OK,
      out |-> IF Len(rows) <= Len(out) THEN rows \o out ELSE out]

\* the rows and the status of report_setting_group_details
GroupDetails(by_id, prefix, allocated) ==
  LET sorted == sort_setting_group_details(by_id, prefix, allocated)
  IN IF sorted.status # Status_Unhandled
     THEN [status |-> Status_OK, out |-> sorted.out]
     ELSE [status |-> Status_OK,
           out |-> Flatten([i \in 1..Len(ChainGroups) |->
                              print_setting_group(ChainGroups[i], prefix)])]

report_setting_group_details(by_id, prefix, allocated) ==
  /\ req' = [op |-> "report_setting_group_details", by_id |-> by_id,
             prefix |-> prefix, allocated |-> allocated]
  /\ rows' = GroupDetails(by_id, prefix, allocated).out
  /\ status' = GroupDetails(by_id, prefix, allocated).status
  /\ UNCHANGED groups

NoRequest ==
  [op |-> "none", human_readable |-> FALSE, id |-> Setting_SettingsAll,
   group |-> Group_All, all |-> FALSE, allocated |-> TRUE]

\* no group registered, no request made yet
NoGroups == [chain |-> <<<<>>>>, id_member |-> "id"]

InitGroups(g) ==
  /\ groups = g
  /\ prior = [req |-> NoRequest, rows |-> <<>>, status |-> "none"]

\* ------------------------------------------------------------------------
\* Odometer plugin: hook chain and counters
\* ------------------------------------------------------------------------
MaxTicks == 2
MaxSteps == 1
MaxDepth == 4

\* the intercepted entry points
Slots == {"pulse_start", "set_state", "on_state_change", "settings_changed"}

\* the handlers the driver has for an entry point; its settings_changed
\* chooses among them
DriverHandlers == {"driver", "driver_alt"}

\* the motion states onStateChanged starts its clock on
MotionStates == {STATE_CYCLE, STATE_JOG, STATE_HOMING}

\* the handlers a call through a slot runs, outermost first: the driver's
\* handler ends the chain, the odometer's and the other plugin's each call
\* the handler they saved; a chain that comes back to itself ends in
\* "overflow" after MaxDepth calls, a call through a NULL pointer in "fault"
RECURSIVE Chain(_, _, _)
Chain(slot, handler, depth) ==
  IF depth = 0 THEN <<"overflow">>
  ELSE CASE handler \in DriverHandlers -> <<handler>>
         [] handler = "odometer" ->
              <<"odometer">>
                \o (IF slot = "on_state_change" /\ saved[slot] = "NULL" THEN <<>>
                    ELSE Chain(slot, saved[slot], depth - 1))
         [] handler = "plugin" ->
              <<"plugin">>
                \o (IF slot = "on_state_change" /\ plugin[slot] = "NULL" THEN <<>>
                    ELSE Chain(slot, plugin[slot], depth - 1))
         [] OTHER -> <<"fault">>

\* what a call through hal.<slot> / grbl.<slot> runs
Invoke(slot) ==
  IF slot = "on_state_change" /\ hooks[slot] = "NULL" THEN <<>>
  ELSE Chain(slot, hooks[slot], MaxDepth)

Runs(run, handler) == \E i \in 1..Len(run) : run[i] = handler

Completes(run) == ~Runs(run, "overflow") /\ ~Runs(run, "fault")

\* the previous call through a slot never returned
Halted == ~Completes(trace.calls)

\* stepperPulseStart: bits is stepper->step_outbits; the C axis counter is
\* driven by the b bit
StepBit(axis) == IF axis = 6 THEN 5 ELSE axis

stepperPulseStart(bits) ==
  /\ odometer_changed' = TRUE
  /\ steps' = [a \in DOMAIN steps |-> IF StepBit(a) \in bits THEN steps[a] + 1
                                     ELSE steps[a]]
  /\ UNCHANGED <<odometers, ms, ticks>>

\* onStateChanged; distance is kept in steps (steps_per_mm is a constant of
\* the axis)
onStateChanged(state) ==
  /\ IF state \in MotionStates
     THEN /\ ms' = [ms EXCEPT !.motors = ticks]
          /\ UNCHANGED <<odometer_changed, odometers, steps>>
     ELSE IF odometer_changed
     THEN /\ odometer_changed' = FALSE
          /\ odometers' =
               [odometers EXCEPT
                  !.motors = @ + (ticks - ms.motors),
                  !.distance = [a \in DOMAIN steps |-> @[a] + steps[a]],
                  !.stored = TRUE]
          /\ steps' = [a \in DOMAIN steps |-> 0]
          /\ UNCHANGED ms
     ELSE UNCHANGED <<odometer_changed, odometers, steps, ms>>
  /\ UNCHANGED ticks

\* onSpindleSetState; odometers_write is queued for the foreground
onSpindleSetState(on) ==
  /\ IF on
     THEN /\ ms' = [ms EXCEPT !.spindle = ticks]
          /\ UNCHANGED odometers
     ELSE IF ms.spindle # 0
     THEN /\ odometers' = [odometers EXCEPT
                             !.spindle = @ + (ticks - ms.spindle),
                             !.queued = TRUE]
          /\ ms' = [ms EXCEPT !.spindle = 0]
     ELSE UNCHANGED <<odometers, ms>>
  /\ UNCHANGED <<odometer_changed, steps, ticks>>

\* the slots after the driver's settings_changed has put the handlers of
\* restored into their slots
Restored(restored) ==
  [k \in Slots |-> IF k \in DOMAIN restored THEN restored[k] ELSE hooks[k]]

\* onSettingsChanged after settings_changed(settings) has run: reclaim
Reclaimed(h) ==
  [k \in Slots |-> IF k \in {"set_state", "pulse_start"} THEN "odometer"
                   ELSE h[k]]

\* SavedAfterReclaim without the test against the odometer's own handler
SavedAfterReclaim_Untested(h) ==
  [k \in Slots |-> IF k \in {"set_state", "pulse_start"} THEN h[k]
                   ELSE saved[k]]

SavedAfterReclaim(h) ==
  [k \in Slots |-> IF k \in {"set_state", "pulse_start"} /\ h[k] # "odometer"
                   THEN h[k] ELSE saved[k]]

\* odometer_init; nvs_ok tells whether the NVS type and size tests pass,
\* read_ok whether the stored odometers could be read (a fresh device stores
\* zeroes), else odometer_data_reset(false) zeroes and writes them
odometer_init(nvs_ok, read_ok) ==
  /\ IF nvs_ok
     THEN /\ saved' = hooks
          /\ hooks' = [k \in Slots |-> "odometer"]
          /\ odometers' =
               IF read_ok THEN odometers
               ELSE [motors |-> 0, spindle |-> 0,
                     distance |-> [a \in DOMAIN steps |-> 0], stored |-> TRUE,
                     queued |-> odometers.queued]
     ELSE UNCHANGED <<hooks, saved, odometers>>
  /\ trace' = [entry |-> "odometer_init", calls |-> <<>>]
  /\ UNCHANGED <<plugin, steps, odometer_changed, ms, ticks>>

\* another plugin intercepts the entry points of wanted by the same contract
plugin_init(wanted) ==
  /\ plugin' = [k \in Slots |-> IF k \in wanted THEN hooks[k] ELSE plugin[k]]
  /\ hooks' = [k \in Slots |-> IF k \in wanted THEN "plugin" ELSE hooks[k]]
  /\ trace' = [entry |-> "plugin_init", calls |-> <<>>]
  /\ UNCHANGED <<saved, steps, odometer_changed, odometers, ms, ticks>>

\* hal.stepper.pulse_start(stepper)
PulseStart(bits) ==
  /\ trace' = [entry |-> "pulse_start", calls |-> Invoke("pulse_start"),
               bits |-> bits]
  /\ IF Completes(trace'.calls) /\ Runs(trace'.calls, "odometer")
     THEN stepperPulseStart(bits)
     ELSE UNCHANGED <<steps, odometer_changed, odometers, ms, ticks>>
  /\ UNCHANGED <<hooks, saved, plugin>>

\* grbl.on_state_change(state)
StateChange(state) ==
  /\ trace' = [entry |-> "on_state_change", calls |-> Invoke("on_state_change")]
  /\ IF Completes(trace'.calls) /\ Runs(trace'.calls, "odometer")
     THEN onStateChanged(state)
     ELSE UNCHANGED <<steps, odometer_changed, odometers, ms, ticks>>
  /\ UNCHANGED <<hooks, saved, plugin>>

\* hal.spindle.set_state(state, rpm)
SpindleSetState(on) ==
  /\ trace' = [entry |-> "set_state", calls |-> Invoke("set_state")]
  /\ IF Completes(trace'.calls) /\ Runs(trace'.calls, "odometer")
     THEN onSpindleSetState(on)
     ELSE UNCHANGED <<steps, odometer_changed, odometers, ms, ticks>>
  /\ UNCHANGED <<hooks, saved, plugin>>

\* hal.settings_changed(settings); restored are the handlers the driver's own
\* handler puts into slots; found is what the reclaim finds there
SettingsChanged(restored) ==
  /\ trace' = [entry |-> "settings_changed",
               calls |-> Invoke("settings_changed"),
               found |-> Restored(restored)]
  /\ IF ~Completes(trace'.calls) THEN UNCHANGED <<hooks, saved>>
     ELSE IF Runs(trace'.calls, "odometer")
     THEN /\ saved' = SavedAfterReclaim(Restored(restored))
          /\ hooks' = Reclaimed(Restored(restored))
     ELSE /\ hooks' = Restored(restored)
          /\ UNCHANGED saved
  /\ UNCHANGED <<plugin, steps, odometer_changed, odometers, ms, ticks>>

\* hal.get_elapsed_ticks() advances
Tick ==
  /\ ticks < MaxTicks
  /\ ticks' = ticks + 1
  /\ UNCHANGED <<hooks, saved, plugin, steps, odometer_changed, odometers, ms,
                 trace>>

\* before odometer_init: the driver's handlers in the HAL slots, nobody
\* subscribed to state changes, static storage zeroed
InitOdometer ==
  /\ hooks = [k \in Slots |-> IF k = "on_state_change" THEN "NULL" ELSE "driver"]
  /\ saved = [k \in Slots |-> "NULL"]
  /\ plugin = [k \in Slots |-> "NULL"]
  /\ steps = [a \in Axes |-> 0]
  /\ odometer_changed = FALSE
  /\ odometers = [motors |-> 0, spindle |-> 0, distance |-> [a \in Axes |-> 0],
                  stored |-> FALSE, queued |-> FALSE]
  /\ ms = [motors |-> 0, spindle |-> 0]
  /\ ticks = 0
  /\ trace = [entry |-> "none", calls |-> <<>>]

\* no handler is in flight
NoFrame == [op |-> "none"]

InitSteps ==
  /\ pc = "idle"
  /\ frame = NoFrame

\* ------------------------------------------------------------------------
\* NGC parameter listing
\* ------------------------------------------------------------------------
\* coord_system_id_t: G54..G59.3, then G28, G30 and G92
CoordinateSystem_G28 == 9
CoordinateSystem_G30 == 10
CoordinateSystem_G92 == 11
N_CoordinateSystems == 12
Status_SettingReadFail == 7

\* report_status_message
report_status_message(status_code) ==
  IF status_code = 0 THEN <<"ok" \o ASCII_EOL>>
  ELSE <<"error:", uitoa(status_code), ASCII_EOL>>

\* one pass of the loop over the coordinate systems, after a successful read
CoordRecord(idx, coord_data) ==
  <<"[G">>
    \o (CASE idx = CoordinateSystem_G28 -> <<"28">>
          [] idx = CoordinateSystem_G30 -> <<"30">>
          [] idx = CoordinateSystem_G92 -> <<>>
          [] OTHER -> map_coord_system(idx))
    \o (IF idx # CoordinateSystem_G92
        THEN <<":", get_axis_values(coord_data, settings.report_inches, FALSE),
               "]" \o ASCII_EOL>>
        ELSE <<>>)

\* the loop with the record opened before the read is checked
RECURSIVE CoordLoop_OpenFirst(_, _)
CoordLoop_OpenFirst(idx, in) ==
  IF idx = N_CoordinateSystems THEN [out |-> <<>>, failed |-> FALSE]
  ELSE IF idx = in.fail_at
  THEN [out |-> <<"[G">> \o report_status_message(Status_SettingReadFail),
        failed |-> TRUE]
  ELSE LET rest == CoordLoop_OpenFirst(idx + 1, in)
       IN [out |-> CoordRecord(idx, in.coord_data[idx + 1]) \o rest.out,
           failed |-> rest.failed]

\* the loop from idx on; settings_read_coord_data fails for in.fail_at
RECURSIVE CoordLoop(_, _)
CoordLoop(idx, in) ==
  IF idx = N_CoordinateSystems THEN [out |-> <<>>, failed |-> FALSE]
  ELSE IF idx = in.fail_at
  THEN [out |-> report_status_message(Status_SettingReadFail), failed |-> TRUE]
  ELSE LET rest == CoordLoop(idx + 1, in)
       IN [out |-> CoordRecord(idx, in.coord_data[idx + 1]) \o rest.out,
           failed |-> rest.failed]

\* get_axis_value_mm / get_axis_value_inches of one value
get_axis_value(value) ==
  IF settings.report_inches THEN ftoa(MmToInch(value), N_DECIMAL_COORDVALUE_INCH)
  ELSE ftoa(value, N_DECIMAL_COORDVALUE_MM)

\* the tool table, present when N_TOOLS is defined
ToolRecords(in) ==
  Flatten([idx \in 1..in.n_tools |->
             <<"[T:", uitoa(idx), "|",
               get_axis_values(in.tool_offset, settings.report_inches, FALSE),
               "|", get_axis_value(in.tool_radius), "]" \o ASCII_EOL>>])

\* what follows the loop: G92, tool table, home, TLO, PRB, TLR
NgcTail(in) ==
  <<"92:", get_axis_values(in.g92_coord_offset, settings.report_inches, FALSE),
    "]" \o ASCII_EOL>>
    \o ToolRecords(in)
    \o (IF in.homing_enabled
        THEN <<"[HOME:",
               get_axis_values(in.home_position, settings.report_inches, FALSE),
               ":", uitoa(in.homed_mask), "]" \o ASCII_EOL>>
        ELSE <<>>)
    \o <<"[TLO:",
         get_axis_values(in.tool_length_offset, settings.report_inches, FALSE),
         "]" \o ASCII_EOL>>
    \o <<"[PRB:",
         get_axis_values(in.probe_position, settings.report_inches, FALSE),
         IF in.probe_succeeded THEN ":1" ELSE ":0", "]" \o ASCII_EOL>>
    \o (IF in.tlo_reference_set
        THEN <<"[TLR:", get_axis_value(in.tlo_reference), "]" \o ASCII_EOL>>
        ELSE <<>>)

NgcLines(in) ==
  LET loop == CoordLoop(0, in)
  IN (IF in.scaling_active
      THEN <<"[G51:", get_axis_values(in.scaling, settings.report_inches, FALSE),
             "]" \o ASCII_EOL>>
      ELSE <<>>)
       \o loop.out
       \o (IF loop.failed THEN <<>> ELSE NgcTail(in))

\* report_ngc_parameters on the parser and system data of in
report_ngc_parameters(in) ==
  /\ req' = [op |-> "report_ngc_parameters", in |-> in]
  /\ rows' = NgcLines(in)
  /\ status' = "void"
  /\ UNCHANGED registry

\* ------------------------------------------------------------------------
\* Configurations and machine snapshots the calls are run on
\* ------------------------------------------------------------------------
StatusOptions ==
  {"machine_position", "buffer_state", "line_numbers", "feed_speed",
   "pin_state", "work_coord_offset", "overrides", "parser_state",
   "run_substate", "alarm_substate"}

\* settings with the status report options of on enabled; extra switches
\* report_inches, lathe mode and the homing flags
SettingsOf(on, extra) ==
  [status_report |-> [o \in StatusOptions |-> o \in on],
   report_inches |-> extra, lathe |-> extra,
   homing_single_axis_commands |-> extra, homing_manual |-> extra]

HalOf(cap) ==
  [variable_spindle |-> cap, spindle_sync |-> cap, mpg_mode |-> cap,
   safety_door_ajar |-> cap, stop_disable |-> cap, probe_get_state |-> cap,
   spindle_get_data |-> cap]

OptionSets ==
  {{"machine_position"},
   StatusOptions \ {"machine_position"},
   {"machine_position", "work_coord_offset", "overrides", "pin_state"}}

Mpos(k) == [idx \in Axes |-> k * idx]

QuietSnap(st) ==
  [state |-> st, tool_change |-> FALSE,
   position |-> Mpos(0), gc_offset |-> Mpos(0), garbage |-> Mpos(7777),
   probe |-> [connected |-> TRUE, triggered |-> FALSE],
   probing_active |-> FALSE, feed_hold_pending |-> FALSE,
   holding_state |-> IF st = STATE_HOLD THEN 2 ELSE 0,
   alarm |-> 0, parking_state |-> 0,
   block_buffer_available |-> 35, rx_buffer_available |-> 1024,
   cur_block_line |-> -1, realtime_rate |-> 0, spindle_rpm |-> 0,
   sp_state |-> {}, sensor_rpm |-> 0, lim_pins |-> {}, ctrl_pins |-> {},
   block_delete_enabled |-> FALSE, optional_stop_disable |-> FALSE,
   coolant |-> {}, override |-> [feed_rate |-> 100, rapid_rate |-> 100,
                                spindle_rpm |-> 100],
   coord_system |-> 0, g51 |-> {}, mpg_mode |-> FALSE, homing_mask |-> {},
   homed_mask |-> {}, diameter_mode |-> FALSE, tool |-> 0,
   tlo_reference_set |-> FALSE, gc_feed_rate |-> 0, gc_spindle_rpm |-> 0,
   modal_other |-> 0, g92_active |-> FALSE, plugin_out |-> <<>>]

BusySnap(st) ==
  [state |-> st, tool_change |-> TRUE,
   position |-> Mpos(1250), gc_offset |-> Mpos(-500), garbage |-> Mpos(7777),
   probe |-> [connected |-> FALSE, triggered |-> TRUE],
   probing_active |-> TRUE, feed_hold_pending |-> FALSE,
   holding_state |-> IF st = STATE_HOLD THEN 1 ELSE 0,
   alarm |-> 11, parking_state |-> 2,
   block_buffer_available |-> 7, rx_buffer_available |-> 99,
   cur_block_line |-> 120, realtime_rate |-> 1500000, spindle_rpm |-> 8000,
   sp_state |-> {"on", "ccw", "encoder_error"}, sensor_rpm |-> 7990,
   lim_pins |-> {1, N_AXIS},
   ctrl_pins |-> {"safety_door_ajar", "reset", "feed_hold", "cycle_start",
                  "e_stop", "block_delete", "stop_disable", "motor_warning",
                  "motor_fault"},
   block_delete_enabled |-> TRUE, optional_stop_disable |-> TRUE,
   coolant |-> {"flood", "mist"},
   override |-> [feed_rate |-> 120, rapid_rate |-> 50, spindle_rpm |-> 90],
   coord_system |-> 6, g51 |-> {2}, mpg_mode |-> TRUE, homing_mask |-> {1, 2},
   homed_mask |-> {1}, diameter_mode |-> TRUE, tool |-> 4,
   tlo_reference_set |-> TRUE, gc_feed_rate |-> 1000, gc_spindle_rpm |-> 8000,
   modal_other |-> 1, g92_active |-> TRUE, plugin_out |-> <<"|ODO:", "12">>]

\* a feed hold is pending on an otherwise quiet machine
PendingSnap(st) ==
  [QuietSnap(st) EXCEPT !.feed_hold_pending = TRUE, !.alarm = 3,
                        !.holding_state = 0, !.spindle_rpm = 500,
                        !.sp_state = {"on"}, !.cur_block_line = 0]

\* a busy machine with no tool change pending
LoadedSnap(st) == [BusySnap(st) EXCEPT !.tool_change = FALSE]

Snapshots ==
  {QuietSnap(st) : st \in States} \cup {BusySnap(st) : st \in States}
    \cup {PendingSnap(st) : st \in {STATE_CYCLE, STATE_ALARM}}
    \cup {LoadedSnap(STATE_IDLE)}

\* the flags producers set between two calls: none, any one, or all
DirtySets == {{}} \cup {{f} : f \in ReportFlags} \cup {ReportFlags}

\* what a call finds: any snapshot with the flags it found set before, or
\* any flags on a snapshot of one of two states
DirtySnapshots ==
  {LoadedSnap(STATE_IDLE), BusySnap(STATE_CYCLE)}

Inputs ==
  (Snapshots \X {{}}) \cup (DirtySnapshots \X DirtySets)

\* static storage is zero-initialised
InitStatics ==
  /\ sys_report = {}
  /\ wco_counter = 0
  /\ override_counter = 0
  /\ probing = FALSE
  /\ parser = [feed_rate |-> 0, spindle_rpm |-> 0, tool |-> 0,
               g92_active |-> FALSE,
               last_state |-> [other |-> 0, diameter_mode |-> FALSE,
                               coord_system |-> 0]]
  /\ report_in = {}
  /\ line = <<>>
  /\ exec_set = {}
  /\ cb = <<>>
  /\ calls = 0
  /\ since_wco = 0
  /\ since_ov = 0
  /\ gap_wco = 0
  /\ gap_ov = 0

vars == <<statusVars, catalogVars, groupVars, odometerVars, stepVars>>

\* ------------------------------------------------------------------------
\* Spec: status reports on any snapshot, any dirty flags, re-initialisation
\* ------------------------------------------------------------------------
Init ==
  /\ InitStatics
  /\ InitOdometer
  /\ InitSteps
  /\ \E on \in OptionSets, full \in BOOLEAN :
       /\ settings = SettingsOf(on, full)
       /\ hal = HalOf(full)
       /\ grbl = [on_realtime_report |-> full]
  /\ snap = QuietSnap(STATE_IDLE)
  /\ InitCatalog(<<<<>>>>)
  /\ InitGroups(NoGroups)

StatusReport ==
  /\ calls < MaxCalls
  /\ \E in \in Inputs : report_realtime_status(in[1], in[2])
  /\ UNCHANGED <<catalogVars, groupVars, odometerVars, stepVars>>

InitMessage == report_init_message /\ UNCHANGED <<catalogVars, groupVars, odometerVars, stepVars>>

Next == StatusReport \/ InitMessage

Spec == Init /\ [][Next]_vars

\* ------------------------------------------------------------------------
\* SpecHeld: the machine is held in one state, no producer sets a flag
\* ------------------------------------------------------------------------
\* the values of sys.holding_state
HoldingStates == 0..2

\* held in Hold at each holding stage
HoldSnaps ==
  {[QuietSnap(STATE_HOLD) EXCEPT !.holding_state = h] : h \in HoldingStates}

HeldOptionSets ==
  {{"work_coord_offset", "overrides"}, StatusOptions}

InitHeld ==
  /\ InitStatics
  /\ InitOdometer
  /\ InitSteps
  /\ \E on \in HeldOptionSets : settings = SettingsOf(on, FALSE)
  /\ hal = HalOf(TRUE)
  /\ grbl = [on_realtime_report |-> FALSE]
  /\ snap \in {QuietSnap(st) : st \in States} \cup HoldSnaps
  /\ InitCatalog(<<<<>>>>)
  /\ InitGroups(NoGroups)

HeldReport ==
  /\ report_realtime_status(snap, {})
  /\ UNCHANGED <<catalogVars, groupVars, odometerVars, stepVars>>

NextHeld == HeldReport

SpecHeld == InitHeld /\ [][NextHeld]_vars

\* ------------------------------------------------------------------------
\* Properties of the status report
\* ------------------------------------------------------------------------
StateTokens ==
  {"Idle", "Run", "Hold", "Jog", "Home", "Alarm", "Check", "Door", "Sleep",
   "Tool"}

\* the last step was a status report
Reported == calls > 0

Option(o) == settings.status_report[o]

\* C1: a status line is '<', then one state token of the fixed set and no
\* second one anywhere, and its last piece is '>' followed by EOL.
C1_StateTokenAndClose ==
  Reported =>
    /\ Len(line) >= 3
    /\ line[1] = "<"
    /\ line[2] \in StateTokens
    /\ \A i \in 1..Len(line) : i # 2 => line[i] \notin StateTokens
    /\ \A i \in 1..Len(line) : i # 1 => line[i] # "<"
    /\ line[Len(line)] = ">" \o ASCII_EOL
    /\ \A i \in 1..(Len(line) - 1) : line[i] # ">" \o ASCII_EOL

C1_Witness ==
  /\ Reported
  /\ snap.state = STATE_ESTOP
  /\ line[2] = "Alarm"
  /\ line[Len(line)] = ">" \o ASCII_EOL

\* the refresh interval that applies to the held state
WcoInterval ==
  IF snap.state \in ActiveStates THEN REPORT_WCO_REFRESH_BUSY_COUNT
  ELSE REPORT_WCO_REFRESH_IDLE_COUNT

OvInterval ==
  IF snap.state \in ActiveStates THEN REPORT_OVERRIDE_REFRESH_BUSY_COUNT
  ELSE REPORT_OVERRIDE_REFRESH_IDLE_COUNT

\* C2: with the state held and no flag set from outside, no interval-long
\* run of reports lacks the WCO field and two WCO fields are at least the
\* interval apart; likewise for the Ov field.
C2_RefreshWindows ==
  (Option("work_coord_offset") /\ Option("overrides")) =>
    /\ since_wco < WcoInterval
    /\ gap_wco # 0 => gap_wco >= WcoInterval
    /\ since_ov < OvInterval
    /\ gap_ov # 0 => gap_ov >= OvInterval

\* C3: the first report after the counters were reset carries WCO and Ov.
C3_FirstReportHasBoth ==
  (calls = 1 /\ Option("work_coord_offset") /\ Option("overrides")) =>
    HasPiece(line, "|WCO:") /\ HasPiece(line, "|Ov:")

\* the field a dirty flag stands for
FieldShown(f) ==
  CASE f = "gwco" -> HasPiece(line, "|WCS:G")
    [] f \in {"spindle", "coolant"} -> HasPiece(line, "|A:")
    [] f = "tool" -> HasPiece(line, "|T:") /\ HasPiece(line, "|A:")
    [] f = "scaling" -> HasPiece(line, "|Sc:")
    [] f = "mpg_mode" -> HasPiece(line, "|MPG:1") \/ HasPiece(line, "|MPG:0")
    [] f = "homed" -> HasPiece(line, "|H:")
    [] f = "xmode" -> HasPiece(line, "|D:1") \/ HasPiece(line, "|D:0")
    [] f = "tlo_reference" -> HasPiece(line, "|TLR:")
    [] OTHER -> FALSE

NonThrottled ==
  {"gwco", "spindle", "coolant", "tool", "scaling", "mpg_mode", "homed",
   "xmode", "tlo_reference"}

\* the configuration lets the field of flag f be written
FieldConfigured(f) ==
  CASE f = "mpg_mode" -> hal.mpg_mode
    [] f = "homed" -> snap.homing_mask # {}
                        \/ settings.homing_single_axis_commands
                        \/ settings.homing_manual
    [] f = "xmode" -> settings.lathe
    [] OTHER -> TRUE

\* C4 as stated: every non-throttled flag found set by the second of two
\* calls has its field in that call's line.
C4_EveryDirtyFlagShown ==
  calls >= 2 => \A f \in NonThrottled : f \in report_in => FieldShown(f)

\* C4 amended: as C4, but for the MPG, homed and diameter-mode flags only
\* when the MPG capability, a homing configuration and lathe mode are there.
C4_ConfiguredDirtyFlagShown ==
  calls >= 2 =>
    \A f \in NonThrottled : (f \in report_in /\ FieldConfigured(f)) => FieldShown(f)

C4_Witness ==
  /\ calls >= 2
  /\ "homed" \in report_in
  /\ report_in # ReportFlags
  /\ FieldConfigured("homed")
  /\ HasPiece(line, "|H:")

\* the position of a field in the grammar of the status line
FieldRank(p) ==
  CASE p = "<" -> 0
    [] p \in StateTokens -> 1
    [] p \in {"|MPos:", "|WPos:"} -> 2
    [] p = "|Bf:" -> 3
    [] p = "|Ln:" -> 4
    [] p \in {"|FS:", "|F:"} -> 5
    [] p = "|Pn:" -> 6
    [] p = "|WCO:" -> 7
    [] p = "|WCS:G" -> 8
    [] p = "|Ov:" -> 9
    [] p = "|A:" -> 10
    [] p = "|Sc:" -> 11
    [] p \in {"|MPG:1", "|MPG:0"} -> 12
    [] p = "|H:" -> 13
    [] p \in {"|D:1", "|D:0"} -> 14
    [] p = "|T:" -> 15
    [] p = "|TLR:" -> 16
    [] p = "|ODO:" -> 17
    [] p = ">" \o ASCII_EOL -> 18
    [] OTHER -> -1

\* C5: the fields of a status line come in the order of the grammar, each at
\* most once.
C5_FieldOrder ==
  Reported =>
    \A i, j \in 1..Len(line) :
      (i < j /\ FieldRank(line[i]) >= 0 /\ FieldRank(line[j]) >= 0)
        => FieldRank(line[i]) < FieldRank(line[j])

C5_Witness ==
  /\ Reported
  /\ \A p \in {"|WPos:", "|Bf:", "|Ln:", "|FS:", "|Pn:", "|WCO:", "|WCS:G",
               "|Ov:", "|A:", "|Sc:", "|MPG:1", "|H:", "|D:1", "|T:", "|TLR:",
               "|ODO:"} : HasPiece(line, p)

\* Idle, machine position mode, no optional field enabled, no callback
BareIdle ==
  /\ Reported
  /\ snap.state = STATE_IDLE
  /\ \A o \in StatusOptions : Option(o) <=> o = "machine_position"
  /\ ~grbl.on_realtime_report

BareLine ==
  <<"<", "Idle", "|MPos:",
    get_axis_values(snap.position, settings.report_inches, snap.diameter_mode),
    ">" \o ASCII_EOL>>

\* C6 as stated: the bare line, whatever the dirty flags, the counters and
\* the pending tool change are.
C6_BareLineAlways == BareIdle => line = BareLine

\* the flags whose fields no status report option gates
UngatedFlags == NonThrottled \cup {"all"}

\* C6 amended: the bare line, provided no tool change is pending and none of
\* the flags with an ungated field is set; the counters and the WCO, override
\* and tool-offset flags may be anything.
C6_BareLineWhenClean ==
  (BareIdle /\ ~snap.tool_change /\ report_in \cap UngatedFlags = {})
    => line = BareLine

C6_Witness ==
  /\ BareIdle
  /\ ~snap.tool_change
  /\ report_in = {"overrides"}
  /\ snap.cur_block_line > 0
  /\ line = BareLine

\* ------------------------------------------------------------------------
\* SpecCatalog: catalog requests on every registry chain of the pool
\* ------------------------------------------------------------------------
DescriptorPool ==
  {Descriptor(30, Group_General, Setting_IsLegacy, "NULL", TRUE),
   Descriptor(31, Group_General, Setting_IsLegacyFn, "no", TRUE),
   Descriptor(100, Group_Axis0, Setting_IsLegacy, "NULL", TRUE),
   Descriptor(110, Group_Axis0, Setting_IsExtended, "yes", FALSE),
   Descriptor(340, Group_Plugin, Setting_NonCore, "no", TRUE),
   Descriptor(341, Group_Plugin, Setting_NonCore, "yes", TRUE)}

CorePool == {d \in DescriptorPool : d.group # Group_Plugin}

PluginPool == {d \in DescriptorPool : d.group = Group_Plugin}

\* the sequences of at most n distinct descriptors of pool
Registries(pool, n) ==
  UNION {{s \in [1..k -> pool] :
            \A i, j \in 1..k : i # j => s[i].id # s[j].id} : k \in 0..n}

\* the plugin registries chained behind the core one: at most MaxPlugins,
\* each registering at most one descriptor of its own
PluginChains ==
  {c \in UNION {[1..k -> Registries(PluginPool, 1)] : k \in 0..MaxPlugins} :
     \A i, j \in 1..Len(c) : (i # j /\ c[i] # <<>>) => c[i] # c[j]}

\* core registry of at most MaxSettings descriptors, then the plugins
Chains ==
  {<<core>> \o plugins :
     core \in Registries(CorePool, MaxSettings), plugins \in PluginChains}

RequestGroups ==
  {Group_All, Group_General, Group_Plugin}
    \cup {Group_Axis0 + k : k \in 0..(N_AXIS - 1)}

RequestIds == {30, 101}

InitSettings ==
  /\ InitStatics
  /\ InitOdometer
  /\ InitSteps
  /\ settings = SettingsOf({"machine_position"}, FALSE)
  /\ hal = HalOf(FALSE)
  /\ grbl = [on_realtime_report |-> FALSE]
  /\ snap = QuietSnap(STATE_IDLE)
  /\ \E chain \in Chains : InitCatalog(chain)
  /\ InitGroups(NoGroups)

SettingsDetails ==
  /\ \E human_readable \in BOOLEAN, group \in RequestGroups, allocated \in BOOLEAN :
       report_settings_details(human_readable, Setting_SettingsAll, group,
                               allocated)
  /\ UNCHANGED <<statusVars, groupVars, odometerVars, stepVars>>

SettingDetail ==
  /\ \E human_readable \in BOOLEAN, id \in RequestIds :
       report_settings_details(human_readable, id, Group_All, TRUE)
  /\ UNCHANGED <<statusVars, groupVars, odometerVars, stepVars>>

GrblSettings ==
  /\ \E all \in BOOLEAN, allocated \in BOOLEAN :
       report_grbl_settings(all, allocated)
  /\ UNCHANGED <<statusVars, groupVars, odometerVars, stepVars>>

NextCatalog == SettingsDetails \/ SettingDetail \/ GrblSettings

SpecCatalog == InitSettings /\ [][NextCatalog]_vars

\* ------------------------------------------------------------------------
\* Properties of the catalog enumerator
\* ------------------------------------------------------------------------
RowSet(out) == {out[i] : i \in 1..Len(out)}

\* the last request listed all settings of req.group
ListedAll ==
  req.op = "report_settings_details" /\ req.id = Setting_SettingsAll

\* what the same request writes when calloc succeeds
SortedRows == sort_settings_details(req.human_readable, req.group, TRUE).out

\* C7: when calloc fails the same rows are written as when it succeeds, in
\* any order: same descriptors, same offsets, same render mode, same number.
C7_FallbackSameRows ==
  (ListedAll /\ ~req.allocated) =>
    RowSet(rows) = RowSet(SortedRows) /\ Len(rows) = Len(SortedRows)

C7_Witness ==
  /\ ListedAll
  /\ ~req.allocated
  /\ Len(rows) >= 2
  /\ rows # SortedRows
  /\ RowSet(rows) = RowSet(SortedRows)
  /\ \E i \in 1..Len(ChainSettings(registry)) :
       ~IsAvailable(ChainSettings(registry)[i])

\* C8: when calloc fails report_grbl_settings still writes every line it
\* writes when calloc succeeds.
C8_FallbackDumpComplete ==
  (req.op = "report_grbl_settings" /\ ~req.allocated) =>
    RowSet(GrblSettingsRows(req.all, TRUE)) \subseteq RowSet(rows)

\* C9: listing all settings returns Status_OK if the group is Group_All or a
\* row was written, Status_SettingDisabled otherwise, on either path.
C9_StatusMatchesRows ==
  ListedAll =>
    status = IF req.group = Group_All \/ rows # <<>> THEN Status_OK
             ELSE Status_SettingDisabled

AxisGroups == {Group_Axis0 + k : k \in 0..(N_AXIS - 1)}

\* C10: a request for the settings of axis k writes no row of an axis
\* descriptor with an offset other than k, on either path.
C10_OnlyRequestedAxis ==
  (ListedAll /\ req.group \in AxisGroups) =>
    \A i \in 1..Len(rows) :
      rows[i].setting.group = Group_Axis0
        => rows[i].offset = req.group - Group_Axis0

C10_Witness ==
  /\ ListedAll
  /\ req.group = Group_Axis0 + 1
  /\ ~req.allocated
  /\ Len(rows) = 2
  /\ \A i \in 1..Len(rows) :
       rows[i].setting.group = Group_Axis0 /\ rows[i].offset = 1

\* the id a row carries on the stream, read back from its digits
EmittedId(row) ==
  CHOOSE n \in row.setting.id..(row.setting.id + N_AXIS) : uitoa(n) = row.id

\* the last request ran with the scratch array allocated and listed all
SortedListing ==
  /\ req.allocated
  /\ \/ ListedAll
     \/ req.op = "report_grbl_settings"

\* C11: with the scratch array allocated, the rows of a listing of all
\* settings are in ascending order of setting id (descriptor id plus axis
\* offset), and the ids written never decrease, whatever the order in which
\* the registries declare the descriptors.
C11_RowsAscending ==
  SortedListing =>
    \A i, j \in 1..Len(rows) :
      i < j => /\ rows[i].setting.id + rows[i].offset
                    < rows[j].setting.id + rows[j].offset
               /\ EmittedId(rows[i]) <= EmittedId(rows[j])

C11_Witness ==
  /\ SortedListing
  /\ Len(rows) >= 3
  /\ \E i \in 1..Len(rows) : rows[i].offset > 0
  /\ \E a, b \in 1..Len(ChainSettings(registry)) :
       /\ a < b
       /\ ChainSettings(registry)[a].id > ChainSettings(registry)[b].id
       /\ \E i, j \in 1..Len(rows) :
            /\ rows[i].setting = ChainSettings(registry)[a]
            /\ rows[j].setting = ChainSettings(registry)[b]

\* ------------------------------------------------------------------------
\* SpecRepeat: one catalog request, then the same request again and again
\* ------------------------------------------------------------------------
GroupPool ==
  {GroupDetail(Group_Root, Group_Root, "Root", TRUE),
   GroupDetail(Group_Root, Group_General, "General", TRUE),
   GroupDetail(Group_Root, Group_Axis0, "Axis", TRUE),
   GroupDetail(Group_Axis0, Group_Axis0 + 1, "X-axis", FALSE),
   GroupDetail(Group_Root, Group_Plugin, "Plugin", TRUE)}

CoreGroups == {g \in GroupPool : g.id # Group_Plugin}

\* the core declares two or three of its groups in any order; a plugin may
\* add its own
GroupChains ==
  {<<core>> \o plugins :
     core \in {s \in UNION {[1..k -> CoreGroups] : k \in 2..3} :
                 \A i, j \in 1..Len(s) : i # j => s[i] # s[j]},
     plugins \in {<<>>, <<<<GroupDetail(Group_Root, Group_Plugin, "Plugin",
                                        TRUE)>>>>}}

GroupSetups ==
  {[chain |-> c, id_member |-> m] : c \in GroupChains, m \in {"id", "parent"}}

Prefixes == {"NULL", "$G"}

InitRepeat ==
  /\ InitStatics
  /\ InitOdometer
  /\ InitSteps
  /\ settings = SettingsOf({"machine_position"}, FALSE)
  /\ hal = HalOf(FALSE)
  /\ grbl = [on_realtime_report |-> FALSE]
  /\ snap = QuietSnap(STATE_IDLE)
  /\ \/ \E chain \in Chains : InitCatalog(chain) /\ InitGroups(NoGroups)
     \/ \E g \in GroupSetups : InitCatalog(<<<<>>>>) /\ InitGroups(g)

Remember == prior' = [req |-> req, rows |-> rows, status |-> status]

FirstSettingsDetails ==
  /\ req.op = "none"
  /\ \E human_readable \in BOOLEAN, group \in RequestGroups, allocated \in BOOLEAN :
       report_settings_details(human_readable, Setting_SettingsAll, group,
                               allocated)
  /\ Remember
  /\ UNCHANGED <<statusVars, groups, odometerVars, stepVars>>

FirstSettingDetail ==
  /\ req.op = "none"
  /\ \E human_readable \in BOOLEAN, id \in RequestIds :
       report_settings_details(human_readable, id, Group_All, TRUE)
  /\ Remember
  /\ UNCHANGED <<statusVars, groups, odometerVars, stepVars>>

FirstGroupDetails ==
  /\ req.op = "none"
  /\ \E by_id \in BOOLEAN, prefix \in Prefixes, allocated \in BOOLEAN :
       report_setting_group_details(by_id, prefix, allocated)
  /\ Remember
  /\ UNCHANGED <<statusVars, registry, odometerVars, stepVars>>

RepeatSettingsDetails ==
  /\ req.op = "report_settings_details"
  /\ report_settings_details(req.human_readable, req.id, req.group,
                             req.allocated)
  /\ Remember
  /\ UNCHANGED <<statusVars, groups, odometerVars, stepVars>>

RepeatGroupDetails ==
  /\ req.op = "report_setting_group_details"
  /\ report_setting_group_details(req.by_id, req.prefix, req.allocated)
  /\ Remember
  /\ UNCHANGED <<statusVars, registry, odometerVars, stepVars>>

NextRepeat ==
  \/ FirstSettingsDetails
  \/ FirstSettingDetail
  \/ FirstGroupDetails
  \/ RepeatSettingsDetails
  \/ RepeatGroupDetails

SpecRepeat == InitRepeat /\ [][NextRepeat]_vars

\* the most recent request repeated the one before it
Repeated == req.op # "none" /\ prior.req = req

SubstateOption(token) ==
  IF token = "Alarm" THEN "alarm_substate" ELSE "run_substate"

\* C13: after the Hold, Door and Alarm tokens a numeric sub-state is written
\* when, and only when, the corresponding sub-state option is enabled.
C13_SubstateIffEnabled ==
  (Reported /\ line[2] \in {"Hold", "Door", "Alarm"}) =>
    (line[3] = ":" <=> Option(SubstateOption(line[2])))

\* C14: in Hold the state segment is Hold: followed by the decimal digits of
\* the holding-stage value minus one, taken modulo 2^32.
C14_HoldStageMinusOne ==
  (Reported /\ snap.state = STATE_HOLD) =>
    /\ line[2] = "Hold"
    /\ line[3] = ":"
    /\ line[4] = IF snap.holding_state = 0 THEN "4294967295"
                 ELSE uitoa(snap.holding_state - 1)

C14_Witness ==
  /\ Reported
  /\ snap.state = STATE_HOLD
  /\ snap.holding_state = 0
  /\ Option("run_substate")
  /\ line[4] = "4294967295"

\* a piece that opens a field or closes the line
FieldStart(p) == FieldRank(p) >= 0 \/ p = "|FW:grblHAL"

\* the letters written in the Pn field of the line, none if it has no Pn
PnLetters ==
  IF ~HasPiece(line, "|Pn:") THEN {}
  ELSE LET i == CHOOSE k \in 1..Len(line) : line[k] = "|Pn:"
           j == CHOOSE k \in (i + 1)..Len(line) :
                  /\ FieldStart(line[k])
                  /\ \A m \in (i + 1)..(k - 1) : ~FieldStart(line[m])
       IN {line[k] : k \in (i + 1)..(j - 1)}

Trailer(p) == p \in {"|FW:grblHAL", ">" \o ASCII_EOL}

\* C16: with a callback registered, a status report invokes it exactly once,
\* after every core field and before the firmware field and the closing '>',
\* with the dirty flags as they stand after the counters have forced theirs
\* and before they are cleared.
C16_CallbackOncePerLine ==
  (Reported /\ grbl.on_realtime_report) =>
    /\ Len(cb) = 1
    /\ \A i \in 1..Len(line) :
         /\ (FieldRank(line[i]) \in 0..16) => i <= cb[1].at
         /\ Trailer(line[i]) => i > cb[1].at + Len(snap.plugin_out)
    /\ SubSeq(line, cb[1].at + 1, cb[1].at + Len(snap.plugin_out))
         = snap.plugin_out
    /\ report_in \ {"wco", "overrides"} \subseteq cb[1].flags
    /\ cb[1].flags \subseteq report_in \cup {"overrides", "spindle", "coolant"}
    /\ "overrides" \in cb[1].flags <=> HasPiece(line, "|Ov:")
    /\ "wco" \in cb[1].flags <=> HasPiece(line, "|WCO:")

C16_Witness ==
  /\ Reported
  /\ grbl.on_realtime_report
  /\ Len(cb) = 1
  /\ "overrides" \in cb[1].flags \ report_in
  /\ "all" \in cb[1].flags
  /\ snap.plugin_out # <<>>
  /\ HasPiece(line, "|FW:grblHAL")
  /\ HasPiece(line, "|Ov:")

\* ------------------------------------------------------------------------
\* SpecParser: status reports with parser-state reporting on, while the
\* parser values change between the calls
\* ------------------------------------------------------------------------
MaxParserCalls == 3

\* an idle machine whose parser holds the given values
ParserSnap(feed, other, g92) ==
  [QuietSnap(STATE_IDLE) EXCEPT !.gc_feed_rate = feed, !.modal_other = other,
                                !.g92_active = g92]

ParserSnaps ==
  {ParserSnap(feed, other, g92) :
     feed \in {0, 1000}, other \in {0, 1}, g92 \in BOOLEAN}

InitParser ==
  /\ InitStatics
  /\ InitOdometer
  /\ InitSteps
  /\ settings = SettingsOf({"machine_position", "parser_state"}, FALSE)
  /\ hal = HalOf(FALSE)
  /\ grbl = [on_realtime_report |-> FALSE]
  /\ snap = QuietSnap(STATE_IDLE)
  /\ InitCatalog(<<<<>>>>)
  /\ InitGroups(NoGroups)

ParserReport ==
  /\ calls < MaxParserCalls
  /\ \E s \in ParserSnaps, dirty \in {{}, {"all"}} :
       report_realtime_status(s, dirty)
  /\ UNCHANGED <<catalogVars, groupVars, odometerVars, stepVars>>

NextParser == ParserReport

SpecParser == InitParser /\ [][NextParser]_vars

\* the values the parser-state change detection watches
GcValues(s) ==
  <<s.gc_feed_rate, s.gc_spindle_rpm, s.tool, GcModal(s), s.g92_active>>

\* this step is a status report that follows another one, and both ran the
\* parser-state change detection
ConsecutiveChecks ==
  /\ calls > 0
  /\ calls' = calls + 1
  /\ Option("parser_state")
  /\ "all" \notin report_in
  /\ "all" \notin report_in'

\* C17: with parser-state reporting on and no full report requested, a call
\* that finds the feed rate, spindle speed, tool, modal state or G92 status
\* changed since the previous call sets EXEC_GCODE_REPORT.
C17_ChangeNeverMissed ==
  [][(ConsecutiveChecks /\ GcValues(snap') # GcValues(snap))
       => EXEC_GCODE_REPORT \in exec_set']_vars

\* the descriptors the rows of the last request were written for
RowSettings == {rows[i].setting : i \in 1..Len(rows)}

\* the set of the elements of a sequence
Range(seq) == {seq[i] : i \in 1..Len(seq)}

LegacyTypes == {Setting_IsLegacy, Setting_IsLegacyFn}

\* C18: report_grbl_settings with all = false writes only available legacy
\* descriptors of the core registry and none of a plugin registry; with
\* all = true it writes every available descriptor of the chain.
C18_LegacyUnlessAll ==
  req.op = "report_grbl_settings" =>
    IF req.all
    THEN RowSettings = {d \in Range(ChainSettings(registry)) : IsAvailable(d)}
    ELSE RowSettings \subseteq
           {d \in Range(registry[1]) : d.type \in LegacyTypes /\ IsAvailable(d)}

\* ------------------------------------------------------------------------
\* SpecHooks: odometer_init, another plugin hooking in before or after it,
\* and calls through the intercepted entry points; the tick clock stands
\* ------------------------------------------------------------------------
\* the entry points the other plugin may intercept
PluginWants ==
  {{"pulse_start"}, {"set_state"}, {"on_state_change"},
   {"pulse_start", "set_state", "on_state_change"}}

PulseBits == {{}, {1}, {2, N_AXIS}}

InitHooks ==
  /\ InitStatics
  /\ InitOdometer
  /\ InitSteps
  /\ settings = SettingsOf({"machine_position"}, FALSE)
  /\ hal = HalOf(FALSE)
  /\ grbl = [on_realtime_report |-> FALSE]
  /\ snap = QuietSnap(STATE_IDLE)
  /\ InitCatalog(<<<<>>>>)
  /\ InitGroups(NoGroups)

\* what the driver's settings_changed may do to the two reclaimed slots
Restorations ==
  UNION {[slots -> DriverHandlers] : slots \in SUBSET {"set_state", "pulse_start"}}

\* the states grbl.on_state_change is called with
NotifiedStates == {STATE_CYCLE, STATE_HOLD, STATE_IDLE}

\* odometer_init has installed the odometer's handlers
Installed == hooks["settings_changed"] = "odometer"

OdometerInit ==
  /\ ~Installed
  /\ \E nvs_ok \in BOOLEAN, read_ok \in BOOLEAN : odometer_init(nvs_ok, read_ok)
  /\ UNCHANGED <<statusVars, catalogVars, groupVars, stepVars>>

PluginInit ==
  /\ ~Halted
  /\ \A k \in Slots : hooks[k] # "plugin" /\ saved[k] # "plugin"
  /\ \E wanted \in PluginWants : plugin_init(wanted)
  /\ UNCHANGED <<statusVars, catalogVars, groupVars, stepVars>>

Pulse ==
  /\ ~Halted
  /\ \E bits \in PulseBits :
       /\ \A a \in bits : steps[a] + odometers.distance[a] < MaxSteps
       /\ PulseStart(bits)
  /\ UNCHANGED <<statusVars, catalogVars, groupVars, stepVars>>

StateChanged ==
  /\ ~Halted
  /\ odometers.motors <= MaxTicks
  /\ \E state \in NotifiedStates : StateChange(state)
  /\ UNCHANGED <<statusVars, catalogVars, groupVars, stepVars>>

SpindleState ==
  /\ ~Halted
  /\ \E on \in BOOLEAN : SpindleSetState(on)
  /\ UNCHANGED <<statusVars, catalogVars, groupVars, stepVars>>

SettingsChange ==
  /\ ~Halted
  /\ \E restored \in Restorations : SettingsChanged(restored)
  /\ UNCHANGED <<statusVars, catalogVars, groupVars, stepVars>>

NextHooks ==
  \/ OdometerInit
  \/ PluginInit
  \/ Pulse
  \/ StateChanged
  \/ SpindleState
  \/ SettingsChange

SpecHooks == InitHooks /\ [][NextHooks]_vars

\* how often a handler runs in a call
Count(run, handler) == Cardinality({i \in 1..Len(run) : run[i] = handler})

\* C19: once the odometer is installed, a call through an intercepted entry
\* point returns, runs the odometer's handler once, and runs the handler the
\* odometer saved for that entry point exactly once.
C19_SavedHandlerRunsOnce ==
  (Installed /\ trace.entry \in Slots) =>
    /\ Completes(trace.calls)
    /\ Count(trace.calls, "odometer") = 1
    /\ saved[trace.entry] # "NULL" => Count(trace.calls, saved[trace.entry]) = 1

\* ------------------------------------------------------------------------
\* SpecNgc: NGC parameter listings, with the read of any one coordinate
\* system failing or none
\* ------------------------------------------------------------------------
\* the data of a listing: fail_at is the coordinate system whose read fails,
\* N_CoordinateSystems if none does
NgcInputs ==
  {[scaling_active |-> sc, scaling |-> Mpos(1000), fail_at |-> k,
    coord_data |-> [i \in 1..N_CoordinateSystems |-> Mpos(i * 100)],
    g92_coord_offset |-> Mpos(-500), n_tools |-> nt, tool_offset |-> Mpos(10),
    tool_radius |-> 1500, homing_enabled |-> ho, home_position |-> Mpos(0),
    homed_mask |-> 3, tool_length_offset |-> Mpos(20),
    probe_position |-> Mpos(30), probe_succeeded |-> ho,
    tlo_reference_set |-> tl, tlo_reference |-> 2500] :
     sc \in BOOLEAN, k \in 0..N_CoordinateSystems, nt \in 0..1,
     ho \in BOOLEAN, tl \in BOOLEAN}

InitNgc ==
  /\ InitStatics
  /\ InitOdometer
  /\ InitSteps
  /\ \E inches \in BOOLEAN : settings = SettingsOf({"machine_position"}, inches)
  /\ hal = HalOf(FALSE)
  /\ grbl = [on_realtime_report |-> FALSE]
  /\ snap = QuietSnap(STATE_IDLE)
  /\ InitCatalog(<<<<>>>>)
  /\ InitGroups(NoGroups)

NgcParameters ==
  /\ \E in \in NgcInputs : report_ngc_parameters(in)
  /\ UNCHANGED <<statusVars, groupVars, odometerVars, stepVars>>

NextNgc == NgcParameters

SpecNgc == InitNgc /\ [][NextNgc]_vars

\* the pieces that open a record of the listing
NgcOpeners == {"[G51:", "[G", "[T:", "[HOME:", "[TLO:", "[PRB:", "[TLR:"}

NgcCloser == "]" \o ASCII_EOL

\* the positions of the pieces of rows that are in set
Positions(set) == {i \in 1..Len(rows) : rows[i] \in set}

\* every record opened is closed before the next one opens or the output ends
RecordsClosed ==
  \A i \in Positions(NgcOpeners) :
    \E j \in Positions({NgcCloser}) :
      /\ i < j
      /\ \A m \in Positions(NgcOpeners) : ~(i < m /\ m < j)

\* the read of a coordinate system failed in the last listing
ReadFailed ==
  req.op = "report_ngc_parameters" /\ req.in.fail_at < N_CoordinateSystems

\* C20: when the read of system k fails, the listing holds the complete
\* records of systems 0..k-1, then the status message of
\* Status_SettingReadFail and nothing after it, no record of the tail, and
\* every record opened is closed.
C20_StopsAtReadFailure ==
  ReadFailed =>
    /\ Cardinality(Positions({"[G"})) = req.in.fail_at
    /\ Cardinality(Positions({NgcCloser}))
         = req.in.fail_at + (IF req.in.scaling_active THEN 1 ELSE 0)
    /\ RecordsClosed
    /\ Len(rows) >= 3
    /\ SubSeq(rows, Len(rows) - 2, Len(rows)) = <<"error:", "7", ASCII_EOL>>
    /\ Positions({"error:"}) = {Len(rows) - 2}
    /\ Positions({"92:", "[T:", "[HOME:", "[TLO:", "[PRB:", "[TLR:"}) = {}

C20_Witness ==
  /\ ReadFailed
  /\ req.in.fail_at = CoordinateSystem_G92
  /\ req.in.scaling_active
  /\ req.in.tlo_reference_set
  /\ Cardinality(Positions({"[G"})) = 11
  /\ rows[Len(rows) - 2] = "error:"

\* ------------------------------------------------------------------------
\* SpecPreempt: report_realtime_status run in stretches, a producer in
\* interrupt context setting flags of sys.report between any two of them
\* ------------------------------------------------------------------------
\* the flags the producer sets
ProducerFlags == {"wco", "gwco", "tool"}

PreemptSnaps == {LoadedSnap(STATE_IDLE), QuietSnap(STATE_CYCLE)}

\* no call in flight; owed are the flags a producer has set and no report
\* has shown since, lost those of them that were cleared unshown, preempted
\* tells that a producer has run while a call was in flight
IdleFrame ==
  [s |-> QuietSnap(STATE_IDLE), entry |-> {}, owed |-> {}, lost |-> {},
   preempted |-> FALSE]

InitPreempt ==
  /\ InitStatics
  /\ InitOdometer
  /\ pc = "idle"
  /\ frame = IdleFrame
  /\ \E on \in OptionSets, full \in BOOLEAN :
       /\ settings = SettingsOf(on, full)
       /\ hal = HalOf(full)
       /\ grbl = [on_realtime_report |-> full]
  /\ snap = QuietSnap(STATE_IDLE)
  /\ InitCatalog(<<<<>>>>)
  /\ InitGroups(NoGroups)

\* a producer sets sys.report.<f>
Produce ==
  /\ \E f \in ProducerFlags :
       /\ sys_report' = sys_report \cup {f}
       /\ frame' = [frame EXCEPT !.owed = @ \cup {f},
                                 !.preempted = @ \/ pc # "idle"]
  /\ UNCHANGED <<settings, hal, grbl, wco_counter, override_counter, probing,
                 parser, snap, report_in, line, exec_set, cb, calls, since_wco,
                 since_ov, gap_wco, gap_ov, pc>>
  /\ UNCHANGED <<catalogVars, groupVars, odometerVars>>

\* entry to the WCO computation: state, position, buffers, rates and pins
ReportEnter ==
  /\ pc = "idle"
  /\ calls < MaxCalls
  /\ \E s \in PreemptSnaps :
       /\ frame' = [frame EXCEPT !.s = s, !.entry = sys_report]
       /\ snap' = s
       /\ line' = HeadFields(s, sys_report)
       /\ probing' = ProbingNext(s)
  /\ report_in' = sys_report
  /\ exec_set' = {}
  /\ cb' = <<>>
  /\ pc' = "counters"
  /\ UNCHANGED <<settings, hal, grbl, sys_report, wco_counter, override_counter,
                 parser, calls, since_wco, since_ov, gap_wco, gap_ov>>
  /\ UNCHANGED <<catalogVars, groupVars, odometerVars>>

\* the two counter blocks
ReportCounters ==
  /\ pc = "counters"
  /\ wco_counter' = WcoCounterNext(frame.s, sys_report)
  /\ override_counter' = OverrideCounterNext(frame.s, sys_report)
  /\ sys_report' = FlagsAtFields(frame.s, sys_report)
  /\ frame' = [frame EXCEPT !.owed = @ \cap sys_report']
  /\ pc' = "fields"
  /\ UNCHANGED <<settings, hal, grbl, probing, parser, snap, report_in, line,
                 exec_set, cb, calls, since_wco, since_ov, gap_wco, gap_ov>>
  /\ UNCHANGED <<catalogVars, groupVars, odometerVars>>

\* the block of the dirty fields
ReportFields ==
  /\ pc = "fields"
  /\ line' = line \o DirtyFields(frame.s, frame.entry, sys_report)
  /\ frame' = [frame EXCEPT !.owed = @ \ sys_report]
  /\ pc' = "tail"
  /\ UNCHANGED <<settings, hal, grbl, sys_report, wco_counter, override_counter,
                 probing, parser, snap, report_in, exec_set, cb, calls,
                 since_wco, since_ov, gap_wco, gap_ov>>
  /\ UNCHANGED <<catalogVars, groupVars, odometerVars>>

\* the callback, the firmware field or the parser check, and the closing piece
ReportTail ==
  /\ pc = "tail"
  /\ LET s == frame.s
         checked == "all" \notin sys_report /\ settings.status_report.parser_state
     IN /\ cb' = IF grbl.on_realtime_report
                 THEN <<[flags |-> sys_report, at |-> Len(line)]>> ELSE <<>>
        /\ line' = line \o PluginSegment(s)
                     \o (IF "all" \in sys_report THEN <<"|FW:grblHAL">> ELSE <<>>)
                     \o <<">" \o ASCII_EOL>>
        /\ parser' = IF checked THEN ParserNext(s) ELSE parser
        /\ exec_set' =
             IF checked
             THEN (IF ParserChanged(s) THEN {EXEC_GCODE_REPORT} ELSE {})
                    \cup (IF "tool_offset" \in sys_report THEN {EXEC_TLO_REPORT}
                          ELSE {})
             ELSE {}
  /\ pc' = "exit"
  /\ UNCHANGED <<settings, hal, grbl, sys_report, wco_counter, override_counter,
                 probing, snap, report_in, calls, since_wco, since_ov, gap_wco,
                 gap_ov, frame>>
  /\ UNCHANGED <<catalogVars, groupVars, odometerVars>>

\* sys.report.value = 0 and the WCO flag for the next call
ReportExit ==
  /\ pc = "exit"
  /\ sys_report' = ReportAtExit(wco_counter)
  /\ frame' = [frame EXCEPT
                 !.lost = @ \cup {f \in frame.owed \cap sys_report :
                                    f \in NonThrottled /\ FieldConfigured(f)},
                 !.owed = {}]
  /\ calls' = Cap(calls + 1)
  /\ since_wco' = IF HasPiece(line, "|WCO:") THEN 0 ELSE Cap(since_wco + 1)
  /\ since_ov' = IF HasPiece(line, "|Ov:") THEN 0 ELSE Cap(since_ov + 1)
  /\ gap_wco' = IF since_wco' = 0 /\ calls > since_wco
                THEN Cap(since_wco + 1) ELSE gap_wco
  /\ gap_ov' = IF since_ov' = 0 /\ calls > since_ov
               THEN Cap(since_ov + 1) ELSE gap_ov
  /\ pc' = "idle"
  /\ UNCHANGED <<settings, hal, grbl, wco_counter, override_counter, probing,
                 parser, snap, report_in, line, exec_set, cb>>
  /\ UNCHANGED <<catalogVars, groupVars, odometerVars>>

NextPreempt ==
  \/ Produce
  \/ ReportEnter
  \/ ReportCounters
  \/ ReportFields
  \/ ReportTail
  \/ ReportExit

SpecPreempt == InitPreempt /\ [][NextPreempt]_vars

\* as long as no producer has cut into a call, no flag is lost and a WCO
\* field is written from the offsets computed in its call
UncutCallsKeepBoth ==
  ~frame.preempted =>
    /\ frame.lost = {}
    /\ HasPiece(line, "|WCO:") => WcoComputed(frame.entry)

\* C21: no flag set by a producer is cleared before a report has carried its
\* field, also when it is set while report_realtime_status is executing.
C21_NoFlagLost == frame.lost = {}

\* C24: a line carries the WCO field only if the call that wrote it filled the
\* offset array: machine-position mode off, or the WCO flag found set at the
\* computation.
C24_WcoOnlyIfComputed ==
  HasPiece(line, "|WCO:") => WcoComputed(frame.entry)

\* ------------------------------------------------------------------------
\* Properties of the refresh counters
\* ------------------------------------------------------------------------
\* this step is a status report
ReportStep == calls' = calls + 1

\* what one call does with a refresh counter: before and after are the
\* counter's values, flag its dirty flag as the call found it, field the
\* piece that opens its field, busy and idle its two intervals
CounterStep(before, after, flag, field, busy, idle) ==
  IF before > 0 /\ flag \notin report_in'
  THEN after = before - 1 /\ ~HasPiece(line', field)
  ELSE /\ HasPiece(line', field)
       /\ after = (IF snap'.state \in ActiveStates THEN busy - 1 ELSE idle - 1)

WcoCounterStep ==
  Option("work_coord_offset") =>
    CounterStep(wco_counter, wco_counter', "wco", "|WCO:",
                REPORT_WCO_REFRESH_BUSY_COUNT, REPORT_WCO_REFRESH_IDLE_COUNT)

OvCounterStep ==
  Option("overrides") =>
    CounterStep(override_counter, override_counter', "overrides", "|Ov:",
                REPORT_OVERRIDE_REFRESH_BUSY_COUNT,
                REPORT_OVERRIDE_REFRESH_IDLE_COUNT)

\* C22: a call either decrements an enabled refresh counter that is nonzero
\* with its flag clear, writing no field for it, or writes the field in this
\* report and reloads the counter with the busy interval less one in Homing,
\* Run, Hold, Jog and Door and the idle interval less one elsewhere.
C22_CounterStepOrRefresh ==
  [][ReportStep => (WcoCounterStep /\ OvCounterStep)]_vars

\* ------------------------------------------------------------------------
\* SpecProbe: status reports in Run while a probing cycle comes and goes
\* ------------------------------------------------------------------------
\* a running machine: probing cycle, probe input and pending feed hold
ProbeSnaps ==
  {[QuietSnap(STATE_CYCLE) EXCEPT
      !.probing_active = active,
      !.probe = [connected |-> TRUE, triggered |-> triggered],
      !.feed_hold_pending = hold,
      !.position = Mpos(move)] :
     active \in BOOLEAN, triggered \in BOOLEAN, hold \in BOOLEAN,
     move \in {0, 100}}
    \cup {QuietSnap(STATE_IDLE)}

InitProbe ==
  /\ InitStatics
  /\ InitOdometer
  /\ InitSteps
  /\ \E run_substate \in BOOLEAN, cap \in BOOLEAN :
       /\ settings = SettingsOf(IF run_substate THEN {"run_substate"} ELSE {},
                                FALSE)
       /\ hal = HalOf(cap)
  /\ grbl = [on_realtime_report |-> FALSE]
  /\ snap = QuietSnap(STATE_IDLE)
  /\ InitCatalog(<<<<>>>>)
  /\ InitGroups(NoGroups)

ProbeReport ==
  /\ calls < MaxCalls
  /\ \E s \in ProbeSnaps : report_realtime_status(s, {})
  /\ UNCHANGED <<catalogVars, groupVars, odometerVars, stepVars>>

NextProbe == ProbeReport

SpecProbe == InitProbe /\ [][NextProbe]_vars

\* the sub-state the last Run report carries, "" if none
RunSubstate ==
  IF Len(line) >= 4 /\ line[2] = "Run" /\ line[3] = ":" THEN line[4] ELSE ""

RunReported == Reported /\ line[2] = "Run"

\* C23: a Run report carries :1 exactly when a feed hold is pending, and :2
\* only while a probing cycle is active and the probe has not reported a
\* trigger.
C23_RunSubstates ==
  RunReported =>
    /\ RunSubstate = "1" <=> snap.feed_hold_pending
    /\ RunSubstate = "2" => snap.probing_active /\ ~ProbeState(snap).triggered

\* C25: with parser-state reporting on and no full report requested, a call
\* that finds the feed rate, spindle speed, tool, modal state and G92 status
\* as the previous call found them does not set EXEC_GCODE_REPORT.
C25_NoReportWithoutChange ==
  [][(ConsecutiveChecks /\ GcValues(snap') = GcValues(snap))
       => EXEC_GCODE_REPORT \notin exec_set']_vars

\* ------------------------------------------------------------------------
\* SpecPins: status reports with pin state reporting on, over the pin,
\* probe and flag combinations
\* ------------------------------------------------------------------------
PinSnaps ==
  {[QuietSnap(STATE_IDLE) EXCEPT
      !.lim_pins = lim, !.ctrl_pins = ctrl,
      !.probe = [connected |-> ~probe, triggered |-> probe],
      !.block_delete_enabled = flag, !.optional_stop_disable = flag] :
     lim \in {{}, {1}}, probe \in BOOLEAN, flag \in BOOLEAN,
     ctrl \in {{}, {"limits_override"}, {"safety_door_ajar"}, {"block_delete"},
               {"stop_disable"}, {"reset", "feed_hold"}}}

InitPins ==
  /\ InitStatics
  /\ InitOdometer
  /\ InitSteps
  /\ settings = SettingsOf({"machine_position", "pin_state"}, FALSE)
  /\ \E cap \in BOOLEAN : hal = HalOf(cap)
  /\ grbl = [on_realtime_report |-> FALSE]
  /\ snap = QuietSnap(STATE_IDLE)
  /\ InitCatalog(<<<<>>>>)
  /\ InitGroups(NoGroups)

PinsReport ==
  /\ calls < MaxCalls
  /\ \E s \in PinSnaps : report_realtime_status(s, {})
  /\ UNCHANGED <<catalogVars, groupVars, odometerVars, stepVars>>

NextPins == PinsReport

SpecPins == InitPins /\ [][NextPins]_vars

\* the letters a Pn field can carry
PinLetterSet ==
  {"P", "O", "D", "R", "H", "S", "E", "L", "T", "W", "M"} \cup Range(AxisLetters)

\* C26: a status line that carries the Pn field carries at least one pin
\* letter in it.
C26_PnNeverEmpty ==
  \A i \in 1..Len(line) :
    line[i] = "|Pn:" => (i < Len(line) /\ line[i + 1] \in PinLetterSet)

\* ------------------------------------------------------------------------
\* SpecReclaim: odometer_init, then settings-changed notifications and calls
\* through the intercepted entry points, no other plugin hooking in
\* ------------------------------------------------------------------------
NextReclaim ==
  \/ OdometerInit
  \/ Pulse
  \/ StateChanged
  \/ SpindleState
  \/ SettingsChange

SpecReclaim == InitHooks /\ [][NextReclaim]_vars

ReclaimedSlots == {"set_state", "pulse_start"}

\* the last call was a settings-changed notification the odometer handled
Notified == Installed /\ trace.entry = "settings_changed"

InitClock ==
  /\ InitStatics
  /\ InitOdometer
  /\ pc = "idle"
  /\ frame = [first_motion |-> -1]
  /\ settings = SettingsOf({"machine_position"}, FALSE)
  /\ hal = HalOf(FALSE)
  /\ grbl = [on_realtime_report |-> FALSE]
  /\ snap = QuietSnap(STATE_IDLE)
  /\ InitCatalog(<<<<>>>>)
  /\ InitGroups(NoGroups)

ClockStateChanged ==
  /\ Installed
  /\ odometers.motors <= MaxTicks
  /\ \E state \in NotifiedStates :
       /\ StateChange(state)
       /\ frame' = IF state \in MotionStates /\ frame.first_motion < 0
                   THEN [first_motion |-> ticks] ELSE frame
  /\ UNCHANGED <<statusVars, catalogVars, groupVars, pc>>

ClockTick ==
  /\ Tick
  /\ UNCHANGED <<statusVars, catalogVars, groupVars, stepVars>>

NextClock ==
  \/ OdometerInit
  \/ Pulse
  \/ ClockStateChanged
  \/ ClockTick

SpecClock == InitClock /\ [][NextClock]_vars

\* C28: the motor run time added to odometers.motors never exceeds the ticks
\* elapsed since a motion state was first entered.
C28_TicksCountedOnce ==
  odometers.motors <=
    (IF frame.first_motion < 0 THEN 0 ELSE ticks - frame.first_motion)

\* ------------------------------------------------------------------------
\* SpecAxes: the odometer built for three to six axes, step pulses on any of
\* them
\* ------------------------------------------------------------------------
\* the axis counts a build can have: X, Y, Z and up to A, B, C
AxisCounts == N_AXIS..Len(AxisLetters)

\* step_outbits of a pulse, by axis
AxisPulseBits == {{}, {1}, {2, 3}, {4}, {5}, {6}, {4, 5, 6}}

InitAxes ==
  /\ InitStatics
  /\ InitSteps
  /\ \E n \in AxisCounts :
       /\ steps = [a \in 1..n |-> 0]
       /\ odometers = [motors |-> 0, spindle |-> 0,
                       distance |-> [a \in 1..n |-> 0],
                       stored |-> FALSE, queued |-> FALSE]
  /\ hooks = [k \in Slots |-> IF k = "on_state_change" THEN "NULL" ELSE "driver"]
  /\ saved = [k \in Slots |-> "NULL"]
  /\ plugin = [k \in Slots |-> "NULL"]
  /\ odometer_changed = FALSE
  /\ ms = [motors |-> 0, spindle |-> 0]
  /\ ticks = 0
  /\ trace = [entry |-> "none", calls |-> <<>>]
  /\ settings = SettingsOf({"machine_position"}, FALSE)
  /\ hal = HalOf(FALSE)
  /\ grbl = [on_realtime_report |-> FALSE]
  /\ snap = QuietSnap(STATE_IDLE)
  /\ InitCatalog(<<<<>>>>)
  /\ InitGroups(NoGroups)

AxesPulse ==
  /\ \E bits \in AxisPulseBits :
       /\ bits \subseteq DOMAIN steps
       /\ \A a \in DOMAIN steps : steps[a] + odometers.distance[a] <= MaxSteps
       /\ PulseStart(bits)
  /\ UNCHANGED <<statusVars, catalogVars, groupVars, stepVars>>

NextAxes ==
  \/ OdometerInit
  \/ AxesPulse
  \/ StateChanged

SpecAxes == InitAxes /\ [][NextAxes]_vars

\* this step is a step pulse handled by the odometer
CountedPulse ==
  /\ trace'.entry = "pulse_start"
  /\ trace' # trace \/ steps' # steps
  /\ Runs(trace'.calls, "odometer")

\* C29: a step pulse adds one to the step counter of every axis whose own
\* step bit is set in the pulse and leaves the counter of every other axis.
C29_OwnBitCounts ==
  [][CountedPulse =>
       \A a \in DOMAIN steps :
         steps'[a] = steps[a] + (IF a \in trace'.bits THEN 1 ELSE 0)]_vars

\* ------------------------------------------------------------------------
\* SpecIsr: onStateChanged run in stretches, stepperPulseStart in interrupt
\* context between any two of them
\* ------------------------------------------------------------------------
\* the odometer installed; idx is the loop index of the call in flight, seen
\* the pulses counted per axis, cut tells that a pulse has come in while a
\* call was in flight
InitIsr ==
  /\ InitStatics
  /\ hooks = [k \in Slots |-> "odometer"]
  /\ saved = [k \in Slots |-> IF k = "on_state_change" THEN "NULL" ELSE "driver"]
  /\ plugin = [k \in Slots |-> "NULL"]
  /\ steps = [a \in Axes |-> 0]
  /\ odometer_changed = FALSE
  /\ odometers = [motors |-> 0, spindle |-> 0, distance |-> [a \in Axes |-> 0],
                  stored |-> TRUE, queued |-> FALSE]
  /\ ms = [motors |-> 0, spindle |-> 0]
  /\ ticks = 0
  /\ trace = [entry |-> "odometer_init", calls |-> <<>>]
  /\ pc = "idle"
  /\ frame = [idx |-> 0, seen |-> [a \in Axes |-> 0], cut |-> FALSE]
  /\ settings = SettingsOf({"machine_position"}, FALSE)
  /\ hal = HalOf(FALSE)
  /\ grbl = [on_realtime_report |-> FALSE]
  /\ snap = QuietSnap(STATE_IDLE)
  /\ InitCatalog(<<<<>>>>)
  /\ InitGroups(NoGroups)

\* stepperPulseStart, at any point of the foreground
IsrPulse ==
  /\ \E bits \in PulseBits :
       /\ \A a \in bits : frame.seen[a] <= MaxSteps
       /\ stepperPulseStart(bits)
       /\ frame' = [frame EXCEPT
                      !.seen = [a \in Axes |-> IF StepBit(a) \in bits
                                               THEN @[a] + 1 ELSE @[a]],
                      !.cut = @ \/ pc # "idle"]
  /\ UNCHANGED <<hooks, saved, plugin, trace, pc>>
  /\ UNCHANGED <<statusVars, catalogVars, groupVars>>

\* onStateChanged up to the test of odometer_changed
StateEnter ==
  /\ pc = "idle"
  /\ \E state \in NotifiedStates :
       IF state \in MotionStates
       THEN /\ ms' = [ms EXCEPT !.motors = ticks]
            /\ pc' = "idle"
       ELSE /\ pc' = IF odometer_changed THEN "clear" ELSE "idle"
            /\ UNCHANGED ms
  /\ UNCHANGED <<hooks, saved, plugin, steps, odometer_changed, odometers,
                 ticks, trace, frame>>
  /\ UNCHANGED <<statusVars, catalogVars, groupVars>>

\* idx = N_AXIS; odometer_changed = false; odometers.motors += ...
StateClear ==
  /\ pc = "clear"
  /\ odometer_changed' = FALSE
  /\ odometers' = [odometers EXCEPT !.motors = @ + (ticks - ms.motors)]
  /\ frame' = [frame EXCEPT !.idx = N_AXIS]
  /\ pc' = "test"
  /\ UNCHANGED <<hooks, saved, plugin, steps, ms, ticks, trace>>
  /\ UNCHANGED <<statusVars, catalogVars, groupVars>>

\* if(steps[--idx]); axis idx of the code is axis idx + 1 here, so the
\* decremented index addresses axis frame.idx
StateTest ==
  /\ pc = "test"
  /\ pc' = IF steps[frame.idx] # 0 THEN "add"
           ELSE IF frame.idx = 1 THEN "store" ELSE "test"
  /\ frame' = IF steps[frame.idx] # 0 THEN frame
              ELSE [frame EXCEPT !.idx = @ - 1]
  /\ UNCHANGED odometerVars
  /\ UNCHANGED <<statusVars, catalogVars, groupVars>>

\* odometers.distance[idx] += steps[idx] / steps_per_mm
StateAdd ==
  /\ pc = "add"
  /\ odometers' = [odometers EXCEPT !.distance[frame.idx] = @ + steps[frame.idx]]
  /\ pc' = "zero"
  /\ UNCHANGED <<hooks, saved, plugin, steps, odometer_changed, ms, ticks,
                 trace, frame>>
  /\ UNCHANGED <<statusVars, catalogVars, groupVars>>

\* steps[idx] = 0; while(idx)
StateZero ==
  /\ pc = "zero"
  /\ steps' = [steps EXCEPT ![frame.idx] = 0]
  /\ pc' = IF frame.idx = 1 THEN "store" ELSE "test"
  /\ frame' = [frame EXCEPT !.idx = @ - 1]
  /\ UNCHANGED <<hooks, saved, plugin, odometer_changed, odometers, ms, ticks,
                 trace>>
  /\ UNCHANGED <<statusVars, catalogVars, groupVars>>

\* nvs.memcpy_to_nvs(...)
StateStore ==
  /\ pc = "store"
  /\ odometers' = [odometers EXCEPT !.stored = TRUE]
  /\ pc' = "idle"
  /\ UNCHANGED <<hooks, saved, plugin, steps, odometer_changed, ms, ticks,
                 trace, frame>>
  /\ UNCHANGED <<statusVars, catalogVars, groupVars>>

NextIsr ==
  \/ IsrPulse
  \/ StateEnter
  \/ StateClear
  \/ StateTest
  \/ StateAdd
  \/ StateZero
  \/ StateStore

SpecIsr == InitIsr /\ [][NextIsr]_vars

\* between two calls of onStateChanged, every pulse counted for an axis is
\* in its distance or pending in its step counter, and a pending step has
\* odometer_changed set
StepsConserved ==
  pc = "idle" =>
    \A a \in Axes :
      /\ odometers.distance[a] + steps[a] = frame.seen[a]
      /\ steps[a] > 0 => odometer_changed

\* as long as no pulse has come in while a call was in flight, no step is lost
UncutCallsConserve == ~frame.cut => StepsConserved

\* C30: with stepperPulseStart able to run at any point of onStateChanged,
\* the steps in the odometer distance plus the steps pending equal the pulses
\* counted, for every axis, and a pending step leaves odometer_changed set.
C30_NoStepLost == StepsConserved

====
